---- MODULE Spec2Model ----
(***************************************************************************)
(* Connection hub and request coordinator of the Dyor AI backend           *)
(* (dyor-ai-backend/real_backend_fixed.py, with the ConnectionManager of   *)
(* main.py / simple_backend.py, which is the same algorithm).              *)
(*                                                                         *)
(* Every asyncio task is a process of the model and every `await` is a     *)
(* position of that process: the code between two awaits runs atomically,  *)
(* and an action of the model is "the await completes and the task runs to *)
(* its next await".  A send completes with the outcome the transport gives *)
(* at that moment.                                                         *)
(***************************************************************************)
EXTENDS Integers, Sequences, FiniteSets, TLC

\* ---- bounds -------------------------------------------------------------
NSessions == 2
NRequests == 2
FullRequests == 1
TimedSessions == 1
FairSessions == 1
FairRequests == 1
MaxParts == 2
MaxTopN == 5
CallSessions == 1
CallParts == 1
MaxCalls == 3
WireSessions == 2
MaxInbox == 2
ChatSessions == 1
ChatParts == 1
FeedSessions == 1
FeedRequests == 1
OrderSessions == 2
OrderRequests == 1
MaxLog == 1

\* ---- program constants --------------------------------------------------
HeartbeatInterval == 30
MetricsInterval == 5
ReceiveTimeout == 60
DefaultTopN == 3

Sessions == 1..NSessions
Requests == 1..NRequests

VARIABLES
    connected_clients,  \* the live list (List[WebSocket]), in insertion order
    open,               \* open[s]: the transport of s accepts sends
    ws,                 \* ws[s]: position of websocket_endpoint for s
    hb,                 \* hb[s]: position of heartbeat_task for s
    met,                \* met[s]: position of metrics_task for s
    hbLeft,             \* time left of the heartbeat task's sleep
    metLeft,            \* time left of the metrics task's sleep
    rdLeft,             \* time left of the read loop's wait_for
    clockOn,            \* TRUE: sleeps take their duration; FALSE: any duration
    sinceClose,         \* time since the handler of s cleaned up (saturating)
    chat,               \* chat[r]: position and locals of chat_endpoint for r
    pass,               \* pass[r]: observation of the broadcast pass in progress
    last,               \* last[r]: observation of the pass r completed last
    reqStable,          \* sessions in the live list since request r started
    got,                \* got[s][r]: request events s received, in order
    agents,             \* agent_selector.agents, the items in insertion order
    message,            \* the text the router is called with
    call,               \* the last call of the router and what it returned
    earlier,            \* a call of the router its caller remembers
    calls,              \* number of calls of the router so far
    limit,              \* number of calls of the router considered
    backend,            \* the program that runs
    inbox,              \* inbox[s]: the events sent to s, in order
    req,                \* the POST /chat request: position and locals
    events              \* the events the request broadcast, in order

vars == <<connected_clients, open, ws, hb, met, hbLeft, metLeft, rdLeft,
          clockOn, sinceClose, chat, pass, last, reqStable, got>>

rvars == <<agents, message, call, earlier, calls, limit>>

svars == <<backend, inbox, req, events>>

allvars == <<vars, rvars, svars>>

\* what the handlers and the requests of the event-by-event view leave alone
others == <<hbLeft, metLeft, rdLeft, clockOn, sinceClose, chat, pass, last,
            reqStable, got, rvars>>

\* ---- helpers ------------------------------------------------------------
Range(q) == {q[i] : i \in 1..Len(q)}

Min(S) == CHOOSE x \in S : \A y \in S : x <= y

RECURSIVE DropFirst(_, _)
DropFirst(q, x) ==
    IF q = <<>> THEN <<>>
    ELSE IF Head(q) = x THEN Tail(q)
    ELSE <<Head(q)>> \o DropFirst(Tail(q), x)

\* list.remove(x): drops the first occurrence of x; ValueError if there is none
list_remove(q, x) ==
    IF x \in Range(q) THEN [val |-> DropFirst(q, x), raised |-> FALSE]
                       ELSE [val |-> q, raised |-> TRUE]

\* faulty variant: remove without the membership test
disconnect_Unguarded(clients, s) == list_remove(clients, s)

\* faulty variant: the removal is lost
disconnect_Lost(clients, s) == [val |-> clients, raised |-> FALSE]

\* ConnectionManager.disconnect, and the same two lines inlined in
\* real_backend_fixed: "if websocket in connected_clients: remove(websocket)"
disconnect(clients, s) ==
    IF s \in Range(clients) THEN list_remove(clients, s)
                             ELSE [val |-> clients, raised |-> FALSE]

\* faulty variant: the removal loop is missing
RemoveAll_KeepsFailed(clients, failed) == [val |-> clients, raised |-> FALSE]

\* faulty variant: one failure empties the live list
RemoveAll_Clear(clients, failed) ==
    [val |-> IF failed = <<>> THEN clients ELSE <<>>, raised |-> FALSE]

\* faulty variant: the removal loop removes without the membership test, so
\* it stops with ValueError at the first client that is already absent
RemoveAll_Unguarded(clients, failed) ==
    LET absent == {i \in 1..Len(failed) : failed[i] \notin Range(clients)}
        stop == IF absent = {} THEN Len(failed) + 1 ELSE Min(absent)
        removed == {failed[i] : i \in 1..(stop - 1)}
    IN [val |-> SelectSeq(clients, LAMBDA x : x \notin removed),
        raised |-> absent # {}]

\* the removal loop after a broadcast pass: "for client in disconnected: ..."
RECURSIVE RemoveAll(_, _)
RemoveAll(clients, failed) ==
    IF failed = <<>> THEN [val |-> clients, raised |-> FALSE]
    ELSE LET d == disconnect(clients, Head(failed))
         IN IF d.raised THEN d ELSE RemoveAll(d.val, Tail(failed))

\* websocket.send_text on transport s: "ok", or the exception it raises
SendOutcomes(s) ==
    IF open[s] THEN {"ok"} ELSE {"WebSocketDisconnect", "RuntimeError"}

\* faulty variant: only WebSocketDisconnect is caught
safe_send_to_client_Narrow(outcome) ==
    [ret |-> outcome = "ok", raised |-> outcome = "RuntimeError"]

\* safe_send_to_client: the value returned, or raised if an exception escapes
safe_send_to_client(outcome) ==
    IF outcome = "ok" THEN [ret |-> TRUE, raised |-> FALSE]
    ELSE IF outcome = "WebSocketDisconnect"
         THEN [ret |-> FALSE, raised |-> FALSE]     \* except WebSocketDisconnect
         ELSE [ret |-> FALSE, raised |-> FALSE]     \* except Exception

\* asyncio.sleep(d) / wait_for(timeout=d)
Sleep(d) == IF clockOn THEN d ELSE 0

Running(t) == t \in {"sleep", "send"}

\* faulty variant: the task is not cancelled
Cancel_Forgotten(t) == t

\* task.cancel(): a finished task stays as it is
Cancel(t) == IF Running(t) THEN "cancelled" ELSE t

\* ---- observation of broadcast last ------------------------------------
NoPass == [ev |-> "none", start |-> <<>>, stable |-> {}, quiet |-> TRUE]

\* Another task changed the live list: every pass in progress is no longer
\* undisturbed, and the sessions in `gone` did not stay in the list.
Disturbed(p, gone) == [p EXCEPT !.quiet = FALSE, !.stable = @ \ gone]

DisturbAll(gone) ==
    /\ pass' = [r \in Requests |->
                  IF chat[r].pc = "send" THEN Disturbed(pass[r], gone) ELSE pass[r]]
    /\ reqStable' = [r \in Requests |->
                  IF chat[r].pc = "send" THEN reqStable[r] \ gone ELSE reqStable[r]]

\* ---- websocket_endpoint -------------------------------------------------
\* faulty variant: the cleanup cancels the tasks of every session
Cleanup_CancelsAll(s) ==
    /\ hb' = [x \in Sessions |-> Cancel(hb[x])]
    /\ met' = [x \in Sessions |-> Cancel(met[x])]
    /\ connected_clients' = disconnect(connected_clients, s).val
    /\ ws' = [ws EXCEPT ![s] = "closed"]
    /\ open' = [open EXCEPT ![s] = FALSE]
    /\ sinceClose' = [sinceClose EXCEPT ![s] = 0]
    /\ hbLeft' = [hbLeft EXCEPT ![s] = 0]
    /\ metLeft' = [metLeft EXCEPT ![s] = 0]
    /\ rdLeft' = [rdLeft EXCEPT ![s] = 0]
    /\ IF s \in Range(connected_clients)
          THEN DisturbAll({s})
          ELSE UNCHANGED <<pass, reqStable>>
    /\ UNCHANGED <<clockOn, chat, last, got>>

\* finally: cancel both tasks, remove the session if present.  The handler
\* returns (or dies of an exception raised in the finally block), which ends
\* the connection: the transport takes no later send.
Cleanup(s) ==
    /\ hb' = [hb EXCEPT ![s] = Cancel(@)]
    /\ met' = [met EXCEPT ![s] = Cancel(@)]
    /\ connected_clients' = disconnect(connected_clients, s).val
    /\ ws' = [ws EXCEPT ![s] =
                IF disconnect(connected_clients, s).raised THEN "crashed"
                                                           ELSE "closed"]
    /\ open' = [open EXCEPT ![s] = FALSE]
    /\ sinceClose' = [sinceClose EXCEPT ![s] = 0]
    /\ hbLeft' = [hbLeft EXCEPT ![s] = 0]
    /\ metLeft' = [metLeft EXCEPT ![s] = 0]
    /\ rdLeft' = [rdLeft EXCEPT ![s] = 0]
    /\ IF s \in Range(connected_clients)
          THEN DisturbAll({s})
          ELSE UNCHANGED <<pass, reqStable>>
    /\ UNCHANGED <<clockOn, chat, last, got>>

\* faulty variant: the session is put at the head of the live list
Connect_Prepends(s) ==
    /\ ws[s] = "idle"
    /\ ws' = [ws EXCEPT ![s] = "greet"]
    /\ open' = [open EXCEPT ![s] = TRUE]
    /\ connected_clients' = <<s>> \o connected_clients
    /\ DisturbAll({})
    /\ UNCHANGED <<hb, met, hbLeft, metLeft, rdLeft, clockOn, sinceClose,
                   chat, last, got>>

\* faulty variant: the session is appended and its tasks are created, but
\* connection_established is not sent
Connect_Silent(s) ==
    /\ ws[s] = "idle"
    /\ ws' = [ws EXCEPT ![s] = "recv"]
    /\ open' = [open EXCEPT ![s] = TRUE]
    /\ connected_clients' = Append(connected_clients, s)
    /\ hb' = [hb EXCEPT ![s] = "sleep"]
    /\ met' = [met EXCEPT ![s] = "sleep"]
    /\ DisturbAll({})
    /\ UNCHANGED <<hbLeft, metLeft, rdLeft, clockOn, sinceClose,
                   chat, last, got>>

\* accept() completes, the session is appended, connection_established is
\* being sent
Connect(s) ==
    /\ ws[s] = "idle"
    /\ ws' = [ws EXCEPT ![s] = "greet"]
    /\ open' = [open EXCEPT ![s] = TRUE]
    /\ connected_clients' = Append(connected_clients, s)
    /\ DisturbAll({})
    /\ UNCHANGED <<hb, met, hbLeft, metLeft, rdLeft, clockOn, sinceClose,
                   chat, last, got>>

\* the send of connection_established completes (its result is not looked
\* at); both tasks are created and the read loop starts its first wait
Greeted(s) ==
    /\ ws[s] = "greet"
    /\ \E o \in SendOutcomes(s) :
         IF safe_send_to_client(o).raised
         THEN \* outside the try block: the handler dies without cleanup
              /\ ws' = [ws EXCEPT ![s] = "crashed"]
              /\ UNCHANGED <<hb, met, hbLeft, metLeft, rdLeft>>
         ELSE /\ ws' = [ws EXCEPT ![s] = "recv"]
              /\ hb' = [hb EXCEPT ![s] = "sleep"]
              /\ met' = [met EXCEPT ![s] = "sleep"]
              /\ hbLeft' = [hbLeft EXCEPT ![s] = Sleep(HeartbeatInterval)]
              /\ metLeft' = [metLeft EXCEPT ![s] = Sleep(MetricsInterval)]
              /\ rdLeft' = [rdLeft EXCEPT ![s] = Sleep(ReceiveTimeout)]
    /\ UNCHANGED <<connected_clients, open, clockOn, sinceClose, chat, pass,
                   last, reqStable, got>>

\* receive_text returns a text frame; the echo is being sent
ReceiveText(s) ==
    /\ ws[s] = "recv"
    /\ open[s]
    /\ ws' = [ws EXCEPT ![s] = "echo"]
    /\ rdLeft' = [rdLeft EXCEPT ![s] = 0]
    /\ UNCHANGED <<connected_clients, open, hb, met, hbLeft, metLeft,
                   clockOn, sinceClose, chat, pass, last, reqStable, got>>

\* faulty variant: a session whose read timed out is taken for dead
ReceiveTimedOut_Drops(s) ==
    /\ ws[s] = "recv"
    /\ open[s]
    /\ rdLeft[s] = 0
    /\ ws' = [ws EXCEPT ![s] = "ping"]
    /\ connected_clients' = disconnect(connected_clients, s).val
    /\ UNCHANGED <<open, hb, met, hbLeft, metLeft, rdLeft,
                   clockOn, sinceClose, chat, pass, last, reqStable, got>>

\* wait_for times out; the keep-alive ping is being sent.  On a closed
\* transport receive_text raises at once, so the wait does not time out.
ReceiveTimedOut(s) ==
    /\ ws[s] = "recv"
    /\ open[s]
    /\ rdLeft[s] = 0
    /\ ws' = [ws EXCEPT ![s] = "ping"]
    /\ UNCHANGED <<connected_clients, open, hb, met, hbLeft, metLeft, rdLeft,
                   clockOn, sinceClose, chat, pass, last, reqStable, got>>

\* the echo or the ping completes (result not looked at): next wait_for.
\* An exception escaping safe_send_to_client is inside the try block.
LoopSendDone(s) ==
    /\ ws[s] \in {"echo", "ping"}
    /\ \E o \in SendOutcomes(s) :
         IF safe_send_to_client(o).raised
         THEN Cleanup(s)
         ELSE /\ ws' = [ws EXCEPT ![s] = "recv"]
              /\ rdLeft' = [rdLeft EXCEPT ![s] = Sleep(ReceiveTimeout)]
              /\ UNCHANGED <<connected_clients, open, hb, met, hbLeft, metLeft,
                             clockOn, sinceClose, chat, pass, last,
                             reqStable, got>>

\* faulty variant: WebSocketDisconnect ends the handler without the finally block
ReceiveDisconnect_NoCleanup(s) ==
    /\ ws[s] = "recv"
    /\ ~open[s]
    /\ ws' = [ws EXCEPT ![s] = "closed"]
    /\ UNCHANGED <<connected_clients, open, hb, met, hbLeft, metLeft, rdLeft,
                   clockOn, sinceClose, chat, pass, last, reqStable, got>>

\* receive_text raises WebSocketDisconnect: the transport is closed
ReceiveDisconnect(s) ==
    /\ ws[s] = "recv"
    /\ ~open[s]
    /\ Cleanup(s)

\* faulty variant: an error of the read ends the handler without the finally
\* block
ReceiveError_NoCleanup(s) ==
    /\ ws[s] = "recv"
    /\ open[s]
    /\ ws' = [ws EXCEPT ![s] = "closed"]
    /\ UNCHANGED <<connected_clients, open, hb, met, hbLeft, metLeft, rdLeft,
                   clockOn, sinceClose, chat, pass, last, reqStable, got>>

\* receive_text raises anything else (e.g. a frame that is not text)
ReceiveError(s) ==
    /\ ws[s] = "recv"
    /\ open[s]
    /\ Cleanup(s)

\* the client, or the network, closes the transport
ClientClose(s) ==
    /\ ws[s] \in {"greet", "recv", "echo", "ping"}
    /\ open[s]
    /\ open' = [open EXCEPT ![s] = FALSE]
    /\ UNCHANGED <<connected_clients, ws, hb, met, hbLeft, metLeft, rdLeft,
                   clockOn, sinceClose, chat, pass, last, reqStable, got>>

\* ---- heartbeat_task / metrics_task --------------------------------------
\* asyncio.sleep(30) returns; the heartbeat is being sent
HeartbeatWake(s) ==
    /\ hb[s] = "sleep"
    /\ hbLeft[s] = 0
    /\ hb' = [hb EXCEPT ![s] = "send"]
    /\ UNCHANGED <<connected_clients, open, ws, met, hbLeft, metLeft, rdLeft,
                   clockOn, sinceClose, chat, pass, last, reqStable, got>>

\* faulty variant: the task goes on after a failed send
TaskAfterSend_Persists(r) == IF r.raised THEN "done" ELSE "sleep"

\* one turn of a task's loop after its send: sleep again, or break; an
\* exception is caught by the task's own except clause and ends the task
TaskAfterSend(r) == IF r.raised \/ ~r.ret THEN "done" ELSE "sleep"

SleepAgain(t, d) == IF t = "sleep" THEN Sleep(d) ELSE 0

HeartbeatSent(s) ==
    /\ hb[s] = "send"
    /\ \E o \in SendOutcomes(s) :
         /\ hb' = [hb EXCEPT ![s] = TaskAfterSend(safe_send_to_client(o))]
         /\ hbLeft' = [hbLeft EXCEPT ![s] = SleepAgain(hb'[s], HeartbeatInterval)]
    /\ UNCHANGED <<connected_clients, open, ws, met, metLeft, rdLeft,
                   clockOn, sinceClose, chat, pass, last, reqStable, got>>

\* faulty variant: the metrics are sent without waiting for the interval
MetricsWake_Early(s) ==
    /\ met[s] = "sleep"
    /\ met' = [met EXCEPT ![s] = "send"]
    /\ UNCHANGED <<connected_clients, open, ws, hb, hbLeft, metLeft, rdLeft,
                   clockOn, sinceClose, chat, pass, last, reqStable, got>>

\* asyncio.sleep(5) returns; get_system_metrics() is called and the
\* system_metrics event is being sent
MetricsWake(s) ==
    /\ met[s] = "sleep"
    /\ metLeft[s] = 0
    /\ met' = [met EXCEPT ![s] = "send"]
    /\ UNCHANGED <<connected_clients, open, ws, hb, hbLeft, metLeft, rdLeft,
                   clockOn, sinceClose, chat, pass, last, reqStable, got>>

MetricsSent(s) ==
    /\ met[s] = "send"
    /\ \E o \in SendOutcomes(s) :
         /\ met' = [met EXCEPT ![s] = TaskAfterSend(safe_send_to_client(o))]
         /\ metLeft' = [metLeft EXCEPT ![s] = SleepAgain(met'[s], MetricsInterval)]
    /\ UNCHANGED <<connected_clients, open, ws, hb, hbLeft, rdLeft,
                   clockOn, sinceClose, chat, pass, last, reqStable, got>>

\* ---- broadcast_to_clients inside chat_endpoint ---------------------------
IdleChat == [pc |-> "idle", auto |-> FALSE, evs |-> <<>>, idx |-> 0,
             cur |-> 0, disc |-> <<>>, raised |-> FALSE]

NoLast == [ev |-> "none", start |-> <<>>, stable |-> {}, quiet |-> TRUE,
           failed |-> <<>>, after |-> <<>>, raised |-> FALSE]

\* the events chat_endpoint broadcasts, in program order
ChatEvents(auto) ==
    IF auto THEN <<"agent_selection", "agent_status", "agent_response">>
            ELSE <<"agent_status", "agent_response">>

\* the coordinator calls broadcast_to_clients for the head of c.evs: with an
\* empty list the call returns at once ("if not connected_clients: return"),
\* and so do the calls after it; otherwise the for loop takes the first
\* client and the task waits in its send
RECURSIVE BeginPass(_, _)
BeginPass(c, clients) ==
    IF c.evs = <<>> THEN [c EXCEPT !.pc = "done", !.idx = 0, !.cur = 0, !.disc = <<>>]
    ELSE IF clients = <<>> THEN BeginPass([c EXCEPT !.evs = Tail(@)], clients)
    ELSE [c EXCEPT !.pc = "send", !.idx = 1, !.cur = clients[1], !.disc = <<>>]

Observe(c, clients) ==
    IF c.pc = "send"
    THEN [ev |-> Head(c.evs), start |-> clients, stable |-> Range(clients),
          quiet |-> TRUE]
    ELSE NoPass

\* POST /chat arrives; auto = (auto_select and agent_type == "auto")
StartChat(r, auto) ==
    /\ chat[r].pc = "idle"
    /\ \A q \in Requests : q < r => chat[q].pc # "idle"
    /\ chat' = [chat EXCEPT ![r] =
                  BeginPass([IdleChat EXCEPT !.auto = auto,
                                             !.evs = ChatEvents(auto)],
                            connected_clients)]
    /\ pass' = [pass EXCEPT ![r] = Observe(chat'[r], connected_clients)]
    /\ reqStable' = [reqStable EXCEPT ![r] = Range(connected_clients)]
    /\ UNCHANGED <<connected_clients, open, ws, hb, met, hbLeft, metLeft,
                   rdLeft, clockOn, sinceClose, last, got>>

\* what a pass that ended leaves behind for the observer
Ended(p, failed, after, raised) ==
    [ev |-> p.ev, start |-> p.start, stable |-> p.stable, quiet |-> p.quiet,
     failed |-> failed, after |-> after, raised |-> raised]

\* the send to chat[r].cur completes; the for loop takes the next element of
\* the live list as it is now, or ends: then the failed clients are removed
\* and the coordinator goes on to its next broadcast.  An exception that
\* leaves broadcast_to_clients lands in chat_endpoint's except clause, which
\* broadcasts agent_error and re-raises.
BroadcastSent(r) ==
    /\ chat[r].pc = "send"
    /\ \E o \in SendOutcomes(chat[r].cur) :
        LET c     == chat[r]
            s     == c.cur
            res   == safe_send_to_client(o)
            disc  == IF res.ret THEN c.disc ELSE Append(c.disc, s)
            more  == c.idx < Len(connected_clients)
            rem   == RemoveAll(connected_clients, disc)
            boom  == res.raised \/ (~more /\ rem.raised)
            after == IF res.raised \/ more THEN connected_clients ELSE rem.val
            gone  == Range(connected_clients) \ Range(after)
        IN
        /\ got' = IF o = "ok"
                  THEN [got EXCEPT ![s][r] = Append(@, Head(c.evs))]
                  ELSE got
        /\ connected_clients' = after
        /\ chat' = [chat EXCEPT ![r] =
              IF boom
              THEN IF c.raised
                   THEN [IdleChat EXCEPT !.pc = "done", !.auto = c.auto,
                                         !.raised = TRUE]
                   ELSE BeginPass([c EXCEPT !.evs = <<"agent_error">>,
                                            !.raised = TRUE], after)
              ELSE IF more
              THEN [c EXCEPT !.idx = c.idx + 1,
                             !.cur = connected_clients[c.idx + 1],
                             !.disc = disc]
              ELSE BeginPass([c EXCEPT !.evs = Tail(@)], after)]
        /\ last' = IF boom \/ ~more
                   THEN [last EXCEPT ![r] = Ended(pass[r], disc, after, boom)]
                   ELSE last
        /\ pass' = [q \in Requests |->
              IF q = r
              THEN IF boom \/ ~more THEN Observe(chat'[r], after) ELSE pass[r]
              ELSE IF chat[q].pc = "send" /\ gone # {}
                   THEN Disturbed(pass[q], gone)
                   ELSE pass[q]]
        /\ reqStable' = [q \in Requests |->
              IF chat[q].pc = "send" THEN reqStable[q] \ gone
              ELSE reqStable[q]]
    /\ UNCHANGED <<open, ws, hb, met, hbLeft, metLeft, rdLeft, clockOn,
                   sinceClose>>

\* ---- time ---------------------------------------------------------------
Timers ==
    {hbLeft[s] : s \in {x \in Sessions : hb[x] = "sleep"}} \cup
    {metLeft[s] : s \in {x \in Sessions : met[x] = "sleep"}} \cup
    {rdLeft[s] : s \in {x \in Sessions : ws[x] = "recv"}}

ElapsedCap == HeartbeatInterval + MetricsInterval

\* time passes up to the next timer that is due (by one metrics interval
\* when no timer runs); a due timer fires before time passes further
Tick ==
    /\ clockOn
    /\ 0 \notin Timers
    /\ LET d == IF Timers = {} THEN MetricsInterval ELSE Min(Timers) IN
       /\ hbLeft' = [s \in Sessions |->
                        IF hb[s] = "sleep" THEN hbLeft[s] - d ELSE hbLeft[s]]
       /\ metLeft' = [s \in Sessions |->
                        IF met[s] = "sleep" THEN metLeft[s] - d ELSE metLeft[s]]
       /\ rdLeft' = [s \in Sessions |->
                        IF ws[s] = "recv" THEN rdLeft[s] - d ELSE rdLeft[s]]
       /\ sinceClose' = [s \in Sessions |->
                        IF ws[s] = "closed"
                        THEN IF sinceClose[s] + d > ElapsedCap
                             THEN ElapsedCap ELSE sinceClose[s] + d
                        ELSE sinceClose[s]]
    /\ UNCHANGED <<connected_clients, open, ws, hb, met, clockOn, chat, pass,
                   last, reqStable, got>>

\* ---- Python float (IEEE 754 binary64) ------------------------------------
\* The scores are Python floats.  A float is modelled by its exact value
\* m * 2^e with m an integer of exactly MantBits bits (or m = 0), and each
\* operation by the exact result rounded to nearest, ties to even.  The
\* integers involved exceed the range of the model checker's integers, so
\* they are held as sequences of limbs in base Base, lowest limb first,
\* without leading zero limbs (zero is the empty sequence).
MantBits == 53
LimbBits == 13
Base == 8192

RECURSIVE Pow2(_)
Pow2(k) == IF k = 0 THEN 1 ELSE 2 * Pow2(k - 1)

RECURSIVE BTrim(_)
BTrim(a) ==
    IF a = <<>> THEN a
    ELSE IF a[Len(a)] = 0 THEN BTrim(SubSeq(a, 1, Len(a) - 1)) ELSE a

Limb(a, i) == IF i <= Len(a) THEN a[i] ELSE 0

BigOf(n) ==
    IF n = 0 THEN <<>>
    ELSE IF n < Base THEN <<n>> ELSE <<n % Base, n \div Base>>

RECURSIVE BAddFrom(_, _, _, _)
BAddFrom(a, b, i, c) ==
    IF i > Len(a) /\ i > Len(b) THEN (IF c = 0 THEN <<>> ELSE <<c>>)
    ELSE LET sum == Limb(a, i) + Limb(b, i) + c
         IN <<sum % Base>> \o BAddFrom(a, b, i + 1, sum \div Base)

BAdd(a, b) == BAddFrom(a, b, 1, 0)

\* a - b for a >= b
RECURSIVE BSubFrom(_, _, _, _)
BSubFrom(a, b, i, c) ==
    IF i > Len(a) THEN <<>>
    ELSE LET diff == Limb(a, i) - Limb(b, i) - c
         IN IF diff < 0 THEN <<diff + Base>> \o BSubFrom(a, b, i + 1, 1)
                     ELSE <<diff>> \o BSubFrom(a, b, i + 1, 0)

BSub(a, b) == BTrim(BSubFrom(a, b, 1, 0))

\* -1, 0, 1 as a < b, a = b, a > b
RECURSIVE BCmpFrom(_, _, _)
BCmpFrom(a, b, i) ==
    IF i = 0 THEN 0
    ELSE IF a[i] < b[i] THEN -1
    ELSE IF a[i] > b[i] THEN 1
    ELSE BCmpFrom(a, b, i - 1)

BCmp(a, b) ==
    IF Len(a) < Len(b) THEN -1
    ELSE IF Len(a) > Len(b) THEN 1
    ELSE BCmpFrom(a, b, Len(a))

\* a * c for 0 <= c <= Base
RECURSIVE BMulSmallFrom(_, _, _, _)
BMulSmallFrom(a, c, i, carry) ==
    IF i > Len(a) THEN (IF carry = 0 THEN <<>> ELSE <<carry>>)
    ELSE LET prod == a[i] * c + carry
         IN <<prod % Base>> \o BMulSmallFrom(a, c, i + 1, prod \div Base)

BMulSmall(a, c) == IF c = 0 THEN <<>> ELSE BMulSmallFrom(a, c, 1, 0)

RECURSIVE BMulFrom(_, _, _)
BMulFrom(a, b, i) ==
    IF i > Len(b) THEN <<>>
    ELSE BAdd(BMulSmall(a, b[i]),
              LET upper == BMulFrom(a, b, i + 1)
              IN IF upper = <<>> THEN upper ELSE <<0>> \o upper)

BMul(a, b) == IF a = <<>> THEN <<>> ELSE BMulFrom(a, b, 1)

\* quotient limbs i.. and remainder of a divided by c, 0 < c <= Base
RECURSIVE BDivSmallFrom(_, _, _)
BDivSmallFrom(a, c, i) ==
    IF i > Len(a) THEN [q |-> <<>>, r |-> 0]
    ELSE LET high == BDivSmallFrom(a, c, i + 1)
             here == high.r * Base + a[i]
         IN [q |-> <<here \div c>> \o high.q, r |-> here % c]

RECURSIVE SmallBitLen(_)
SmallBitLen(n) == IF n = 0 THEN 0 ELSE 1 + SmallBitLen(n \div 2)

BitLen(a) ==
    IF a = <<>> THEN 0 ELSE (Len(a) - 1) * LimbBits + SmallBitLen(a[Len(a)])

BShl(a, k) ==
    IF a = <<>> THEN a
    ELSE [i \in 1..(k \div LimbBits) |-> 0] \o BMulSmall(a, Pow2(k % LimbBits))

BShr(a, k) ==
    LET whole == k \div LimbBits
    IN IF whole >= Len(a) THEN <<>>
       ELSE BTrim(BDivSmallFrom(SubSeq(a, whole + 1, Len(a)),
                                Pow2(k % LimbBits), 1).q)

\* floor(2^k * a / d) and whether the division left a remainder, for a, d of
\* the same bit length: k + 1 steps of binary long division on the partial
\* remainder st.r and the partial quotient st.q
RECURSIVE BDivBits(_, _, _)
BDivBits(st, d, k) ==
    IF BCmp(st.r, d) >= 0
    THEN IF k = 0
         THEN [q |-> BAdd(BMulSmall(st.q, 2), <<1>>),
               exact |-> BSub(st.r, d) = <<>>]
         ELSE BDivBits([r |-> BMulSmall(BSub(st.r, d), 2),
                        q |-> BAdd(BMulSmall(st.q, 2), <<1>>)], d, k - 1)
    ELSE IF k = 0
         THEN [q |-> BMulSmall(st.q, 2), exact |-> st.r = <<>>]
         ELSE BDivBits([r |-> BMulSmall(st.r, 2),
                        q |-> BMulSmall(st.q, 2)], d, k - 1)

FZero == [m |-> <<>>, e |-> 0]

\* the float nearest to (n + f) * 2^e, where 0 <= f < 1 and sticky says f > 0
FRound(n, e, sticky) ==
    IF n = <<>> THEN FZero
    ELSE LET bits == BitLen(n) IN
         IF bits <= MantBits
         THEN [m |-> BShl(n, MantBits - bits), e |-> e - (MantBits - bits)]
         ELSE LET cut    == bits - MantBits
                  kept    == BShr(n, cut)
                  half    == BCmp(BSub(n, BShl(kept, cut)), BShl(<<1>>, cut - 1))
                  away   == half = 1 \/ (half = 0 /\ (sticky \/ kept[1] % 2 = 1))
                  rounded   == IF away THEN BAdd(kept, <<1>>) ELSE kept
              IN IF BitLen(rounded) > MantBits
                 THEN [m |-> BShr(rounded, 1), e |-> e + cut + 1]
                 ELSE [m |-> rounded, e |-> e + cut]

\* float(n) for a small integer n >= 0
FInt(n) == FRound(BigOf(n), 0, FALSE)

FMul(x, y) ==
    IF x = FZero \/ y = FZero THEN FZero
    ELSE FRound(BMul(x.m, y.m), x.e + y.e, FALSE)

FAdd(x, y) ==
    IF x = FZero THEN y
    ELSE IF y = FZero THEN x
    ELSE LET emin == IF x.e < y.e THEN x.e ELSE y.e
         IN FRound(BAdd(BShl(x.m, x.e - emin), BShl(y.m, y.e - emin)), emin, FALSE)

\* x / y for y > 0
FDiv(x, y) ==
    IF x = FZero THEN FZero
    ELSE IF x = y THEN FInt(1)
    ELSE LET quot == BDivBits([r |-> x.m, q |-> <<>>], y.m, MantBits + 2)
         IN FRound(quot.q, x.e - y.e - (MantBits + 2), ~quot.exact)

FLess(x, y) ==
    IF y = FZero THEN FALSE
    ELSE IF x = FZero THEN TRUE
    ELSE IF x.e # y.e THEN x.e < y.e
    ELSE BCmp(x.m, y.m) < 0

FLeq(x, y) == x = y \/ FLess(x, y)

\* the float literal p/q of the source text (the float nearest to p/q)
FLit(num, den) == FDiv(FInt(num), FInt(den))

\* ---- agent_selector.py ----------------------------------------------------
manus_keywords ==
    <<
      <<"g", "e", "n", "e", "r", "a", "l">>, <<"h", "e", "l", "p">>,
      <<"a", "s", "s", "i", "s", "t">>,
      <<"e", "x", "p", "l", "a", "i", "n">>,
      <<"o", "v", "e", "r", "v", "i", "e", "w">>,
      <<"s", "u", "m", "m", "a", "r", "y">>, <<"g", "u", "i", "d", "e">>,
      <<"t", "u", "t", "o", "r", "i", "a", "l">>,
      <<"b", "a", "s", "i", "c">>, <<"s", "i", "m", "p", "l", "e">>,
      <<"q", "u", "e", "s", "t", "i", "o", "n">>, <<"w", "h", "a", "t">>,
      <<"h", "o", "w">>, <<"w", "h", "y">>,
      <<"t", "e", "l", "l", " ", "m", "e">>,
      <<"d", "e", "s", "c", "r", "i", "b", "e">>,
      <<"g", "e", "n", "e", "r", "a", "l", " ", "p", "u", "r", "p", "o", "s", "e">>
    >>

browser_keywords ==
    <<
      <<"w", "e", "b", "s", "i", "t", "e">>, <<"w", "e", "b">>,
      <<"s", "c", "r", "a", "p", "e">>,
      <<"s", "c", "r", "a", "p", "i", "n", "g">>,
      <<"c", "r", "a", "w", "l">>, <<"e", "x", "t", "r", "a", "c", "t">>,
      <<"b", "r", "o", "w", "s", "e", "r">>,
      <<"n", "a", "v", "i", "g", "a", "t", "e">>,
      <<"c", "l", "i", "c", "k">>, <<"f", "o", "r", "m">>,
      <<"a", "u", "t", "o", "m", "a", "t", "i", "o", "n">>,
      <<"s", "e", "l", "e", "n", "i", "u", "m">>, <<"u", "r", "l">>,
      <<"l", "i", "n", "k">>, <<"p", "a", "g", "e">>, <<"h", "t", "m", "l">>,
      <<"c", "s", "s">>, <<"x", "p", "a", "t", "h">>,
      <<"d", "o", "w", "n", "l", "o", "a", "d">>,
      <<"u", "p", "l", "o", "a", "d">>, <<"l", "o", "g", "i", "n">>,
      <<"s", "u", "b", "m", "i", "t">>,
      <<"s", "e", "a", "r", "c", "h", " ", "o", "n", "l", "i", "n", "e">>,
      <<"v", "i", "s", "i", "t">>, <<"o", "p", "e", "n">>,
      <<"b", "r", "o", "w", "s", "e">>,
      <<"i", "n", "t", "e", "r", "n", "e", "t">>,
      <<"o", "n", "l", "i", "n", "e">>
    >>

data_keywords ==
    <<
      <<"d", "a", "t", "a">>, <<"a", "n", "a", "l", "y", "z", "e">>,
      <<"a", "n", "a", "l", "y", "s", "i", "s">>,
      <<"s", "t", "a", "t", "i", "s", "t", "i", "c", "s">>,
      <<"c", "h", "a", "r", "t">>, <<"g", "r", "a", "p", "h">>,
      <<"v", "i", "s", "u", "a", "l", "i", "z", "a", "t", "i", "o", "n">>,
      <<"p", "l", "o", "t">>, <<"p", "a", "n", "d", "a", "s">>,
      <<"n", "u", "m", "p", "y">>, <<"c", "s", "v">>,
      <<"e", "x", "c", "e", "l">>,
      <<"d", "a", "t", "a", "b", "a", "s", "e">>, <<"s", "q", "l">>,
      <<"q", "u", "e", "r", "y">>, <<"r", "e", "p", "o", "r", "t">>,
      <<"i", "n", "s", "i", "g", "h", "t", "s">>,
      <<"t", "r", "e", "n", "d", "s">>,
      <<"c", "o", "r", "r", "e", "l", "a", "t", "i", "o", "n">>,
      <<"r", "e", "g", "r", "e", "s", "s", "i", "o", "n">>,
      <<"m", "a", "c", "h", "i", "n", "e", " ", "l", "e", "a", "r", "n", "i", "n", "g">>,
      <<"m", "l">>, <<"d", "a", "t", "a", "s", "e", "t">>,
      <<"d", "a", "t", "a", "f", "r", "a", "m", "e">>,
      <<"p", "i", "v", "o", "t">>,
      <<"a", "g", "g", "r", "e", "g", "a", "t", "e">>,
      <<"c", "l", "e", "a", "n">>, <<"p", "r", "o", "c", "e", "s", "s">>,
      <<"t", "r", "a", "n", "s", "f", "o", "r", "m">>,
      <<"f", "i", "l", "t", "e", "r">>, <<"s", "o", "r", "t">>,
      <<"g", "r", "o", "u", "p">>
    >>

swe_keywords ==
    <<
      <<"c", "o", "d", "e">>,
      <<"p", "r", "o", "g", "r", "a", "m", "m", "i", "n", "g">>,
      <<"s", "c", "r", "i", "p", "t">>,
      <<"f", "u", "n", "c", "t", "i", "o", "n">>,
      <<"c", "l", "a", "s", "s">>, <<"m", "o", "d", "u", "l", "e">>,
      <<"p", "y", "t", "h", "o", "n">>,
      <<"j", "a", "v", "a", "s", "c", "r", "i", "p", "t">>,
      <<"j", "a", "v", "a">>, <<"c", "+", "+">>,
      <<"d", "e", "v", "e", "l", "o", "p", "m", "e", "n", "t">>,
      <<"b", "u", "i", "l", "d">>, <<"c", "r", "e", "a", "t", "e">>,
      <<"i", "m", "p", "l", "e", "m", "e", "n", "t">>,
      <<"a", "l", "g", "o", "r", "i", "t", "h", "m">>,
      <<"s", "o", "f", "t", "w", "a", "r", "e">>,
      <<"a", "p", "p", "l", "i", "c", "a", "t", "i", "o", "n">>,
      <<"a", "p", "i">>, <<"f", "r", "a", "m", "e", "w", "o", "r", "k">>,
      <<"l", "i", "b", "r", "a", "r", "y">>,
      <<"p", "a", "c", "k", "a", "g", "e">>,
      <<"i", "n", "s", "t", "a", "l", "l">>, <<"s", "e", "t", "u", "p">>,
      <<"d", "e", "b", "u", "g">>, <<"f", "i", "x">>,
      <<"e", "r", "r", "o", "r">>, <<"b", "u", "g">>, <<"t", "e", "s", "t">>,
      <<"u", "n", "i", "t", " ", "t", "e", "s", "t">>,
      <<"r", "e", "f", "a", "c", "t", "o", "r">>,
      <<"o", "p", "t", "i", "m", "i", "z", "e">>,
      <<"p", "e", "r", "f", "o", "r", "m", "a", "n", "c", "e">>,
      <<"a", "r", "c", "h", "i", "t", "e", "c", "t", "u", "r", "e">>,
      <<"d", "e", "s", "i", "g", "n", " ", "p", "a", "t", "t", "e", "r", "n">>,
      <<"o", "o", "p">>,
      <<"f", "u", "n", "c", "t", "i", "o", "n", "a", "l">>,
      <<"g", "i", "t">>,
      <<"v", "e", "r", "s", "i", "o", "n", " ", "c", "o", "n", "t", "r", "o", "l">>
    >>

\* self.agents: a dict, which keeps its insertion order
Catalog ==
    <<[name |-> "manus", keywords |-> manus_keywords,
       description |-> "General-purpose AI agent for basic tasks and explanations",
       priority_score |-> 1],
      [name |-> "browser", keywords |-> browser_keywords,
       description |-> "Web automation and scraping specialist",
       priority_score |-> 3],
      [name |-> "data", keywords |-> data_keywords,
       description |-> "Data analysis and visualization expert",
       priority_score |-> 3],
      [name |-> "swe", keywords |-> swe_keywords,
       description |-> "Software engineering and development agent",
       priority_score |-> 3]>>

\* A text is a sequence of one-character strings.
UpperCase ==
    <<"A", "B", "C", "D", "E", "F", "G", "H", "I", "J", "K", "L", "M",
      "N", "O", "P", "Q", "R", "S", "T", "U", "V", "W", "X", "Y", "Z">>
LowerCase ==
    <<"a", "b", "c", "d", "e", "f", "g", "h", "i", "j", "k", "l", "m",
      "n", "o", "p", "q", "r", "s", "t", "u", "v", "w", "x", "y", "z">>

\* str.lower() on ASCII text
lower_char(ch) ==
    IF \E i \in 1..Len(UpperCase) : UpperCase[i] = ch
    THEN LowerCase[CHOOSE i \in 1..Len(UpperCase) : UpperCase[i] = ch]
    ELSE ch

\* the sequence of Op(x) for the x of s, in order
RECURSIVE MapSeq(_, _)
MapSeq(Op(_), s) ==
    IF s = <<>> THEN <<>> ELSE <<Op(Head(s))>> \o MapSeq(Op, Tail(s))

\* Body(v) for v the value of value: a local of the code, computed once
Local(value, Body(_)) == CHOOSE r \in {Body(v) : v \in {value}} : TRUE

lower(text) == MapSeq(lower_char, text)

Whitespace == {" ", "\t", "\n", "\r"}

\* str.strip(): leading and trailing whitespace removed
RECURSIVE lstrip(_)
lstrip(text) ==
    IF text # <<>> /\ text[1] \in Whitespace THEN lstrip(Tail(text)) ELSE text

RECURSIVE rstrip(_)
rstrip(text) ==
    IF text # <<>> /\ text[Len(text)] \in Whitespace
    THEN rstrip(SubSeq(text, 1, Len(text) - 1))
    ELSE text

strip(text) == rstrip(lstrip(text))

\* "keyword in task_lower": keyword is a substring of the text
contains(text, keyword) ==
    \E i \in 0..(Len(text) - Len(keyword)) :
        \A j \in 1..Len(keyword) : text[i + j] = keyword[j]

\* the float literal 0.2 of the bonus, and the default threshold 0.3
BonusStep == FLit(1, 5)
DefaultThreshold == FLit(3, 10)

\* faulty variant: an exact match counts like any other match
keyword_weight_Flat(keyword, task_lower) == FInt(1)

\* what one matched keyword adds to the score: 2.0 when it is the whole
\* stripped text, else 1.0
keyword_weight(keyword, task_lower) ==
    IF keyword = strip(task_lower) THEN FInt(2) ELSE FInt(1)

\* the loop over agent.keywords from keyword i on: the score and the number
\* of matches, starting from acc
RECURSIVE count_matches(_, _, _, _)
count_matches(keywords, task_lower, i, acc) ==
    IF i > Len(keywords) THEN acc
    ELSE IF contains(task_lower, keywords[i])
         THEN count_matches(keywords, task_lower, i + 1,
                  [score |-> FAdd(acc.score,
                                  keyword_weight(keywords[i], task_lower)),
                   keyword_matches |-> acc.keyword_matches + 1])
         ELSE count_matches(keywords, task_lower, i + 1, acc)

\* "1 + (keyword_matches - 1) * 0.2"
bonus(keyword_matches) ==
    FAdd(FInt(1), FMul(FInt(keyword_matches - 1), BonusStep))

\* faulty variant: the bonus stops growing after two matches
weighted_score_Capped(matched, priority_score) ==
    LET weighted == FMul(matched.score, FInt(priority_score))
    IN IF matched.keyword_matches > 1
       THEN FMul(weighted,
                 bonus(IF matched.keyword_matches > 2
                       THEN 2 ELSE matched.keyword_matches))
       ELSE weighted

\* "score *= agent.priority_score", then the bonus for several matches
weighted_score(matched, priority_score) ==
    LET weighted == FMul(matched.score, FInt(priority_score))
    IN IF matched.keyword_matches > 1
       THEN FMul(weighted, bonus(matched.keyword_matches))
       ELSE weighted

\* the body of the loop over self.agents: the score of one agent before the
\* normalisation
agent_score(agent, task_lower) ==
    weighted_score(count_matches(agent.keywords, task_lower, 1,
                                 [score |-> FZero, keyword_matches |-> 0]),
                   agent.priority_score)

\* faulty variant: the last value is taken for the greatest
max_value_Last(values, i, best) ==
    IF values = <<>> THEN best ELSE values[Len(values)]

\* max(scores.values()): the first greatest value
RECURSIVE max_value(_, _, _)
max_value(values, i, best) ==
    IF i > Len(values) THEN best
    ELSE IF FLess(best, values[i]) THEN max_value(values, i + 1, values[i])
         ELSE max_value(values, i + 1, best)

\* faulty variant: the scores are returned as computed, not normalised
normalize_Skipped(raw) == [val |-> raw, raised |-> FALSE]

\* faulty variant: the division is not guarded (ZeroDivisionError)
normalize_Unguarded(raw) ==
    Local(IF raw = <<>> THEN FInt(1) ELSE max_value(raw, 2, raw[1]),
          LAMBDA max_score :
              IF max_score = FZero
              THEN [val |-> raw, raised |-> raw # <<>>]
              ELSE [val |-> MapSeq(LAMBDA v : FDiv(v, max_score), raw),
                    raised |-> FALSE])

\* "max_score = max(...) if scores.values() else 1; if max_score > 0:
\* scores = {k: v / max_score ...}"
normalize(raw) ==
    Local(IF raw = <<>> THEN FInt(1) ELSE max_value(raw, 2, raw[1]),
          LAMBDA max_score :
              IF FLess(FZero, max_score)
              THEN [val |-> MapSeq(LAMBDA v : FDiv(v, max_score), raw),
                    raised |-> FALSE]
              ELSE [val |-> raw, raised |-> FALSE])

\* the scores before the normalisation, in the order of self.agents
raw_scores(catalog, task) ==
    Local(lower(task),
          LAMBDA task_lower :
              MapSeq(LAMBDA agent : agent_score(agent, task_lower), catalog))

\* AgentSelector.analyze_task: the dict of the confidences, as the sequence
\* of its items in insertion order
analyze_task(catalog, task) ==
    Local(raw_scores(catalog, task),
          LAMBDA raw :
              Local(normalize(raw),
                    LAMBDA norm :
                        [val |-> MapSeq(LAMBDA i : [key |-> catalog[i].name,
                                                    value |-> norm.val[i]],
                                        [i \in 1..Len(catalog) |-> i]),
                         raised |-> norm.raised]))

\* faulty variant: a later item of equal score replaces the best
RECURSIVE max_item_Last(_, _, _)
max_item_Last(items, i, best) ==
    IF i > Len(items) THEN best
    ELSE IF FLeq(best.value, items[i].value)
         THEN max_item_Last(items, i + 1, items[i])
         ELSE max_item_Last(items, i + 1, best)

\* "max(scores.keys(), key=lambda k: scores[k])": the first item with the
\* greatest value
RECURSIVE max_item(_, _, _)
max_item(items, i, best) ==
    IF i > Len(items) THEN best
    ELSE IF FLess(best.value, items[i].value)
         THEN max_item(items, i + 1, items[i])
         ELSE max_item(items, i + 1, best)

\* faulty variant: below the threshold the threshold is reported
select_best_agent_Substituted(catalog, task, threshold) ==
    Local(analyze_task(catalog, task),
          LAMBDA scores :
              Local(max_item(scores.val, 2, scores.val[1]),
                    LAMBDA best :
                        IF FLess(best.value, threshold)
                        THEN [agent |-> "manus", confidence |-> threshold,
                              scores |-> scores.val, raised |-> scores.raised]
                        ELSE [agent |-> best.key, confidence |-> best.value,
                              scores |-> scores.val, raised |-> scores.raised]))

\* AgentSelector.select_best_agent
select_best_agent(catalog, task, threshold) ==
    Local(analyze_task(catalog, task),
          LAMBDA scores :
              Local(max_item(scores.val, 2, scores.val[1]),
                    LAMBDA best :
                        IF FLess(best.value, threshold)
                        THEN [agent |-> "manus", confidence |-> best.value,
                              scores |-> scores.val, raised |-> scores.raised]
                        ELSE [agent |-> best.key, confidence |-> best.value,
                              scores |-> scores.val, raised |-> scores.raised]))

\* faulty variant: an item goes before the items of equal value
RECURSIVE insert_desc_Unstable(_, _)
insert_desc_Unstable(sorted, item) ==
    IF sorted = <<>> THEN <<item>>
    ELSE IF FLeq(Head(sorted).value, item.value) THEN <<item>> \o sorted
         ELSE <<Head(sorted)>> \o insert_desc_Unstable(Tail(sorted), item)

\* faulty variant: the sort is ascending (reverse=True forgotten)
RECURSIVE insert_desc_Ascending(_, _)
insert_desc_Ascending(sorted, item) ==
    IF sorted = <<>> THEN <<item>>
    ELSE IF FLess(item.value, Head(sorted).value) THEN <<item>> \o sorted
         ELSE <<Head(sorted)>> \o insert_desc_Ascending(Tail(sorted), item)

\* one step of the stable sort: item goes after every item whose value is
\* greater or equal
RECURSIVE insert_desc(_, _)
insert_desc(sorted, item) ==
    IF sorted = <<>> THEN <<item>>
    ELSE IF FLess(Head(sorted).value, item.value) THEN <<item>> \o sorted
         ELSE <<Head(sorted)>> \o insert_desc(Tail(sorted), item)

\* "sorted(scores.items(), key=lambda x: x[1], reverse=True)"
RECURSIVE sorted_desc(_, _, _)
sorted_desc(items, i, acc) ==
    IF i > Len(items) THEN acc
    ELSE Local(insert_desc(acc, items[i]),
               LAMBDA longer : sorted_desc(items, i + 1, longer))

\* self.agents[agent_name]
agent_of(catalog, name) ==
    catalog[CHOOSE i \in 1..Len(catalog) : catalog[i].name = name]

\* "sorted_agents[:top_n]" for top_n >= 0
take(items, top_n) ==
    SubSeq(items, 1, IF top_n < Len(items) THEN top_n ELSE Len(items))

\* AgentSelector.get_agent_suggestions
get_agent_suggestions(catalog, task, top_n) ==
    Local(analyze_task(catalog, task),
          LAMBDA scores :
              [val |-> MapSeq(LAMBDA item :
                                [agent_name |-> item.key,
                                 confidence |-> item.value,
                                 description |->
                                     agent_of(catalog, item.key).description],
                              take(sorted_desc(scores.val, 1, <<>>), top_n)),
               raised |-> scores.raised])

\* "[kw for kw in agent.keywords if kw in task_lower]"
matched_keywords(keywords, task_lower) ==
    SelectSeq(keywords, LAMBDA kw : contains(task_lower, kw))

\* AgentSelector.explain_selection: the parts the explanation is made of
explain_selection(catalog, task, selected_agent) ==
    LET agent == agent_of(catalog, selected_agent)
        matched == matched_keywords(agent.keywords, lower(task))
    IN [name |-> agent.name, task |-> task,
        description |-> agent.description,
        keywords |-> take(matched, 5)]

\* ---- the calls of the router ----------------------------------------------
\* the text of the documented example
Example ==
    <<"H", "e", "l", "p", " ", "m", "e", " ", "s", "c", "r", "a", "p", "e",
      " ", "a", " ", "w", "e", "b", "s", "i", "t", "e", " ", "a", "n", "d",
      " ", "a", "n", "a", "l", "y", "z", "e", " ", "s", "a", "l", "e", "s",
      " ", "c", "h", "a", "r", "t", "s">>

\* the inputs: the texts made of at most n of these parts
Parts ==
    {<<"w", "e", "b">>, <<"w", "e", "b", "s", "i", "t", "e">>,
     <<"l", "i", "n", "k">>, <<"d", "a", "t", "a">>, <<"h", "t", "m", "l">>,
     <<"H", "e", "l", "p">>, <<"w", "h", "a", "t">>, <<"c", "o", "d", "e">>,
     <<" ">>, <<"x">>, Example}

RECURSIVE Texts(_)
Texts(n) ==
    IF n = 0 THEN {<<>>}
    ELSE LET shorter == Texts(n - 1)
         IN shorter \cup {t \o p : t \in shorter, p \in Parts}

\* the thresholds a caller passes: 0.0, the default 0.3, 1.0 and 1.5
Thresholds == {FZero, DefaultThreshold, FInt(1), FLit(3, 2)}

AgentNames == {agents[i].name : i \in 1..Len(agents)}

NoCall ==
    [fn |-> "none", at |-> 0, threshold |-> FZero, top_n |-> 0,
     selected_agent |-> "", result |-> <<>>]

\* a method of the global agent_selector returns result to its caller; the
\* caller may keep what an earlier call returned
Returned(fn, threshold, top_n, selected_agent, result) ==
    /\ calls < limit
    /\ calls' = calls + 1
    /\ call' = [fn |-> fn, at |-> calls + 1, threshold |-> threshold,
                top_n |-> top_n, selected_agent |-> selected_agent,
                result |-> result]
    /\ earlier' \in {earlier, call}
    /\ UNCHANGED <<message, limit>>
    /\ UNCHANGED <<vars, svars>>

\* agent_selector.analyze_task(task)
Analyze ==
    /\ Returned("analyze_task", FZero, 0, "", analyze_task(agents, message))
    /\ agents' = agents

\* faulty variant: while no client is connected the default agent is named
Route_PerClient(threshold) ==
    /\ Returned("select_best_agent", threshold, 0, "",
                IF connected_clients = <<>>
                THEN [select_best_agent(agents, message, threshold)
                          EXCEPT !.agent = "manus"]
                ELSE select_best_agent(agents, message, threshold))
    /\ agents' = agents

\* agent_selector.select_best_agent(task, threshold)
Route(threshold) ==
    /\ Returned("select_best_agent", threshold, 0, "",
                select_best_agent(agents, message, threshold))
    /\ agents' = agents

\* agent_selector.get_agent_suggestions(task, top_n)
Suggest(top_n) ==
    /\ Returned("get_agent_suggestions", FZero, top_n, "",
                get_agent_suggestions(agents, message, top_n))
    /\ agents' = agents

\* faulty variant: the matched keywords are filtered in place
Explain_InPlace(selected_agent) ==
    /\ Returned("explain_selection", FZero, 0, selected_agent,
                explain_selection(agents, message, selected_agent))
    /\ agents' = [i \in 1..Len(agents) |->
                    IF agents[i].name = selected_agent
                    THEN [agents[i] EXCEPT
                            !.keywords = matched_keywords(@, lower(message))]
                    ELSE agents[i]]

\* agent_selector.explain_selection(task, selected_agent)
Explain(selected_agent) ==
    /\ Returned("explain_selection", FZero, 0, selected_agent,
                explain_selection(agents, message, selected_agent))
    /\ agents' = agents

\* ---- the four servers, event by event ------------------------------------
\* main.py, simple_backend.py, real_backend_v2.py and real_backend_fixed.py
\* are four programs with the same interface.  Here the program that runs is
\* `backend`, every event a session is sent is kept in its inbox, and the
\* sends of one broadcast are taken together (how they interleave with the
\* other tasks is what Spec and FullSpec explore).
Backends == {"main", "simple_backend", "real_backend_v2", "real_backend_fixed"}

\* the two programs with a ConnectionManager and agent objects
Managed == {"main", "simple_backend"}

\* the keys of active_agents (initialize_agents) or of AGENT_CONFIGS
HandlerTable == <<"manus", "browser", "data", "swe">>

\* agent_type of a request: "auto", a handler, or a name that is no handler
AgentTypes == {"auto", "manus", "browser", "data", "swe", "pirate"}

\* str(e) of the exception the executor raises
ExecutorError == "executor failed"

NoEvent ==
    [type |-> "none", agent |-> "", confidence |-> FZero, error |-> "",
     auto_selected |-> FALSE, agents |-> <<>>, features |-> <<>>]

\* the connection_established event of each program
Greeting(b) ==
    [NoEvent EXCEPT
       !.type = "connection_established",
       !.agents = IF b \in Managed THEN HandlerTable ELSE <<>>,
       !.features =
           IF b = "main" THEN <<>>
           ELSE IF b = "simple_backend"
           THEN <<"auto_agent_selection", "real_time_monitoring",
                  "agent_suggestions">>
           ELSE <<"real_llm_integration", "auto_agent_selection",
                  "real_time_monitoring", "agent_suggestions">>]

\* ---- websocket_endpoint of each program ----------------------------------
\* the handler of s ends after removing s from the live list (the except
\* clauses of main, simple_backend and real_backend_v2; the finally block of
\* real_backend_fixed, which also cancels the two tasks)
Leave(s) ==
    /\ connected_clients' = disconnect(connected_clients, s).val
    /\ ws' = [ws EXCEPT ![s] = "closed"]
    /\ open' = [open EXCEPT ![s] = FALSE]
    /\ hb' = [hb EXCEPT ![s] = Cancel(@)]
    /\ met' = [met EXCEPT ![s] = Cancel(@)]

\* accept() returns and the session is appended to the live list; the
\* connection_established event is being sent
Accept(s) ==
    /\ ws[s] = "idle"
    /\ ws' = [ws EXCEPT ![s] = "greet"]
    /\ open' = [open EXCEPT ![s] = TRUE]
    /\ connected_clients' = Append(connected_clients, s)
    /\ UNCHANGED <<hb, met, inbox, req, events, backend>>

\* where the handler waits after the greeting: main, simple_backend and
\* real_backend_fixed read, real_backend_v2 sends the metrics
AfterGreeting == IF backend = "real_backend_v2" THEN "metrics" ELSE "recv"

\* the send of connection_established completes
Established(s) ==
    /\ ws[s] = "greet"
    /\ \E o \in SendOutcomes(s) :
         IF o = "ok"
         THEN /\ inbox' = [inbox EXCEPT ![s] = Append(@, Greeting(backend))]
              /\ ws' = [ws EXCEPT ![s] = AfterGreeting]
              /\ hb' = [hb EXCEPT ![s] =
                          IF backend = "real_backend_fixed" THEN "sleep" ELSE @]
              /\ met' = [met EXCEPT ![s] =
                          IF backend = "real_backend_fixed" THEN "sleep" ELSE @]
              /\ UNCHANGED <<connected_clients, open>>
         ELSE IF backend \in Managed
         THEN \* inside the try block: except ... manager.disconnect
              Leave(s) /\ UNCHANGED inbox
         ELSE IF backend = "real_backend_v2"
         THEN \* outside the try block: the handler dies, s stays in the list
              /\ ws' = [ws EXCEPT ![s] = "crashed"]
              /\ UNCHANGED <<connected_clients, open, hb, met, inbox>>
         ELSE \* safe_send_to_client returns False, which is not looked at
              /\ ws' = [ws EXCEPT ![s] = "recv"]
              /\ hb' = [hb EXCEPT ![s] = "sleep"]
              /\ met' = [met EXCEPT ![s] = "sleep"]
              /\ UNCHANGED <<connected_clients, open, inbox>>
    /\ UNCHANGED <<req, events, backend>>

\* what a client may send: {"type": "ping"}, {"type": "get_suggestions"}, a
\* JSON object of another type, JSON that is no object, and text that is no
\* JSON
Payloads == {"ping", "get_suggestions", "other", "array", "garbage"}

\* json.loads(data) and message_data.get("type"): the type, or raised
parse(payload) ==
    IF payload = "garbage" THEN [type |-> "", raised |-> TRUE]   \* JSONDecodeError
    ELSE IF payload = "array" THEN [type |-> "", raised |-> TRUE] \* AttributeError
    ELSE [type |-> payload, raised |-> FALSE]

\* the event the handler answers an inbound message with, "none" if it
\* answers nothing
answer(b, type) ==
    IF b = "real_backend_fixed" THEN "echo"
    ELSE IF type = "ping" THEN "pong"
    ELSE IF type = "get_suggestions" /\ b = "simple_backend"
    THEN "agent_suggestions"
    ELSE "none"

\* receive_text returns the payload; the handler runs to its next await: the
\* send of its answer, or the next receive_text
Inbound(s, payload) ==
    /\ ws[s] = "recv"
    /\ open[s]
    /\ backend # "real_backend_v2"
    /\ Len(inbox[s]) < MaxInbox
    /\ IF backend # "real_backend_fixed" /\ parse(payload).raised
       THEN Leave(s)
       ELSE /\ ws' = [ws EXCEPT ![s] =
                        IF backend = "real_backend_fixed" THEN "echo"
                        ELSE IF answer(backend, parse(payload).type) = "none"
                        THEN "recv"
                        ELSE answer(backend, parse(payload).type)]
            /\ UNCHANGED <<connected_clients, open, hb, met>>
    /\ UNCHANGED <<inbox, req, events, backend>>

\* faulty variant: the pong goes to every session of the live list
Replied_ToAll(s) ==
    /\ ws[s] \in {"pong", "agent_suggestions", "echo"}
    /\ open[s]
    /\ inbox' = [x \in Sessions |->
                   IF x \in Range(connected_clients) /\ open[x]
                   THEN Append(inbox[x], [NoEvent EXCEPT !.type = ws[s]])
                   ELSE inbox[x]]
    /\ ws' = [ws EXCEPT ![s] = "recv"]
    /\ UNCHANGED <<connected_clients, open, hb, met, req, events, backend>>

\* the send of the answer completes
Replied(s) ==
    /\ ws[s] \in {"pong", "agent_suggestions", "echo"}
    /\ \E o \in SendOutcomes(s) :
         IF o = "ok"
         THEN /\ inbox' = [inbox EXCEPT
                             ![s] = Append(@, [NoEvent EXCEPT !.type = ws[s]])]
              /\ ws' = [ws EXCEPT ![s] = "recv"]
              /\ UNCHANGED <<connected_clients, open, hb, met>>
         ELSE IF backend \in Managed
         THEN Leave(s) /\ UNCHANGED inbox
         ELSE /\ ws' = [ws EXCEPT ![s] = "recv"]
              /\ UNCHANGED <<connected_clients, open, hb, met, inbox>>
    /\ UNCHANGED <<req, events, backend>>

\* real_backend_v2: the send of system_metrics completes; the loop sleeps and
\* sends again, or the except clause removes the session
SystemMetrics(s) ==
    /\ ws[s] = "metrics"
    /\ \E o \in SendOutcomes(s) :
         IF o = "ok"
         THEN /\ Len(inbox[s]) < MaxInbox
              /\ inbox' = [inbox EXCEPT
                             ![s] = Append(@, [NoEvent EXCEPT
                                                 !.type = "system_metrics"])]
              /\ UNCHANGED <<connected_clients, open, ws, hb, met>>
         ELSE Leave(s) /\ UNCHANGED inbox
    /\ UNCHANGED <<req, events, backend>>

\* receive_text raises WebSocketDisconnect
Dropped(s) ==
    /\ ws[s] = "recv"
    /\ ~open[s]
    /\ Leave(s)
    /\ UNCHANGED <<inbox, req, events, backend>>

\* the client, or the network, closes the transport
Hangup(s) ==
    /\ ws[s] \in {"greet", "recv", "metrics", "pong", "agent_suggestions",
                  "echo"}
    /\ open[s]
    /\ open' = [open EXCEPT ![s] = FALSE]
    /\ UNCHANGED <<connected_clients, ws, hb, met, inbox, req, events,
                   backend>>

\* ---- POST /chat of each program -------------------------------------------
IdleRequest ==
    [pc |-> "idle", agent_type |-> "", auto_select |-> FALSE, agent |-> "",
     auto_selected |-> FALSE, routed |-> FALSE, confidence |-> FZero,
     outcome |-> "", error |-> "", status |-> 0]

\* the request is answered with this HTTP status
Answered(r, status) == [r EXCEPT !.pc = "done", !.status = status]

\* raise HTTPException(status_code=404) before anything is broadcast
NotFound(r) == Answered(r, 404)

\* faulty variant: the handler is run without the agent_status event
Thinking_Silent(r, agent) == [r EXCEPT !.pc = "run", !.agent = agent]

\* the request runs up to the broadcast of agent_status for this handler
Thinking(r, agent) == [r EXCEPT !.pc = "agent_status", !.agent = agent]

\* the request runs up to the broadcast of agent_selection for the decision
\* of select_best_agent
Selecting(r, decision) ==
    [r EXCEPT !.pc = "agent_selection", !.agent = decision.agent,
              !.confidence = decision.confidence, !.routed = TRUE,
              !.auto_selected = TRUE]

\* main.chat_with_agent up to its first await
main_chat(r) ==
    IF ~\E i \in 1..Len(HandlerTable) : HandlerTable[i] = r.agent_type
    THEN NotFound(r)
    ELSE Thinking(r, r.agent_type)

\* simple_backend.chat_with_agent up to its first await
simple_chat(r, decision) ==
    IF r.auto_select \/ r.agent_type = "auto"
    THEN Selecting(r, decision)
    ELSE IF ~\E i \in 1..Len(HandlerTable) : HandlerTable[i] = r.agent_type
    THEN NotFound(r)
    ELSE Thinking(r, r.agent_type)

\* real_backend_fixed.chat_endpoint up to its first await
fixed_chat(r, decision) ==
    IF r.auto_select /\ r.agent_type = "auto"
    THEN Selecting(r, decision)
    ELSE Thinking(r, r.agent_type)

\* real_backend_v2.chat_endpoint up to its first await: the decision is a
\* tuple, so selection_result["explanation"] raises TypeError while the
\* agent_selection event is built; the except clause broadcasts agent_error
\* with agent_type, which is still "auto"
v2_chat(r, decision) ==
    IF r.auto_select /\ r.agent_type = "auto"
    THEN [r EXCEPT !.pc = "agent_error", !.agent = r.agent_type,
                   !.routed = TRUE, !.error = "TypeError"]
    ELSE Thinking(r, r.agent_type)

\* POST /chat arrives with this agent_type and auto_select (main.py has no
\* auto_select) and with the text `message`
Post(agent_type, auto_select) ==
    /\ req.pc = "idle"
    /\ backend = "main" => ~auto_select
    /\ LET r == [IdleRequest EXCEPT !.agent_type = agent_type,
                                    !.auto_select = auto_select]
       IN req' =
            IF backend = "main" THEN main_chat(r)
            ELSE Local(select_best_agent(agents, message, DefaultThreshold),
                       LAMBDA decision :
                           IF backend = "simple_backend"
                           THEN simple_chat(r, decision)
                           ELSE IF backend = "real_backend_fixed"
                           THEN fixed_chat(r, decision)
                           ELSE v2_chat(r, decision))
    /\ UNCHANGED <<connected_clients, open, ws, hb, met, inbox, events,
                   backend>>

\* the event the request is broadcasting
EventOf(r) ==
    [NoEvent EXCEPT !.type = r.pc, !.agent = r.agent,
                    !.confidence = r.confidence, !.error = r.error,
                    !.auto_selected = r.auto_selected]

\* the sessions of the live list a send fails for, in the order of the list
Unreachable == SelectSeq(connected_clients, LAMBDA s : ~open[s])

\* the request after the broadcast of its event; simple_backend looks the
\* selected handler up after the broadcast of agent_selection
Broadcasted(b, r) ==
    IF r.pc = "agent_selection"
    THEN IF b = "simple_backend"
            /\ ~\E i \in 1..Len(HandlerTable) : HandlerTable[i] = r.agent
         THEN NotFound(r)
         ELSE [r EXCEPT !.pc = "agent_status"]
    ELSE IF r.pc = "agent_status" THEN [r EXCEPT !.pc = "run"]
    ELSE IF r.pc = "agent_response" THEN Answered(r, 200)
    ELSE Answered(r, 500)

\* manager.broadcast / broadcast_to_clients of the event returns: every
\* session of the live list was sent the event, and those the send failed
\* for were removed
Broadcast ==
    /\ req.pc \in {"agent_selection", "agent_status", "agent_response",
                   "agent_error"}
    /\ inbox' = [s \in Sessions |->
                   IF s \in Range(connected_clients) /\ open[s]
                   THEN Append(inbox[s], EventOf(req)) ELSE inbox[s]]
    /\ connected_clients' = RemoveAll(connected_clients, Unreachable).val
    /\ events' = Append(events, EventOf(req))
    /\ req' = Broadcasted(backend, req)
    /\ UNCHANGED <<open, ws, hb, met, backend>>

\* faulty variant: an exception of the executor leaves the endpoint at once
Ran_Uncaught(b, r, outcome) ==
    IF outcome = "ok"
    THEN [r EXCEPT !.pc = "agent_response", !.outcome = outcome]
    ELSE [Answered(r, 500) EXCEPT !.outcome = outcome]

\* agent.run (main, simple_backend) or get_llm_response (real_backend_v2,
\* real_backend_fixed) returns or raises: get_llm_response catches what the
\* LLM call raises and returns a response with "error": True
Ran(b, r, outcome) ==
    IF outcome = "ok"
    THEN [r EXCEPT !.pc = "agent_response", !.outcome = outcome]
    ELSE IF b \in Managed
    THEN [r EXCEPT !.pc = "agent_error", !.outcome = outcome,
                   !.error = ExecutorError]
    ELSE [r EXCEPT !.pc = "agent_response", !.outcome = outcome,
                   !.error = ExecutorError]

Executed(outcome) ==
    /\ req.pc = "run"
    /\ req' = Ran(backend, req, outcome)
    /\ UNCHANGED <<connected_clients, open, ws, hb, met, inbox, events,
                   backend>>

\* ---- specifications -----------------------------------------------------
\* ns sessions may connect and nr requests may arrive
InitWith(ns, nr, clock) ==
    /\ connected_clients = <<>>
    /\ open = [s \in Sessions |-> FALSE]
    /\ ws = [s \in Sessions |-> IF s <= ns THEN "idle" ELSE "absent"]
    /\ hb = [s \in Sessions |-> "none"]
    /\ met = [s \in Sessions |-> "none"]
    /\ hbLeft = [s \in Sessions |-> 0]
    /\ metLeft = [s \in Sessions |-> 0]
    /\ rdLeft = [s \in Sessions |-> 0]
    /\ sinceClose = [s \in Sessions |-> 0]
    /\ chat = [r \in Requests |->
                 IF r <= nr THEN IdleChat ELSE [IdleChat EXCEPT !.pc = "absent"]]
    /\ pass = [r \in Requests |-> NoPass]
    /\ last = [r \in Requests |-> NoLast]
    /\ reqStable = [r \in Requests |-> {}]
    /\ got = [s \in Sessions |-> [r \in Requests |-> <<>>]]
    /\ clockOn = clock

\* ---- the router -----------------------------------------------------------
\* the selector after AgentSelector(), about to be called at most n times
\* with a text of at most parts parts
RouterInit(parts, n) ==
    /\ agents = Catalog
    /\ message \in Texts(parts)
    /\ call = NoCall
    /\ earlier = NoCall
    /\ calls = 0
    /\ limit = n

\* ---- the four servers ------------------------------------------------------
\* no request and no inbound message yet, one of these programs running
ServerInit(programs) ==
    /\ backend \in programs
    /\ inbox = [s \in Sessions |-> <<>>]
    /\ req = IdleRequest
    /\ events = <<>>

\* real_backend_fixed, the program of the hub above, with no request yet
ServerIdle == ServerInit({"real_backend_fixed"})

\* the connection handlers, up to their first wait for an inbound message
SessionNext ==
    \/ \E s \in Sessions : Connect(s) /\ UNCHANGED <<rvars, svars>>
    \/ \E s \in Sessions : Greeted(s) /\ UNCHANGED <<rvars, svars>>
    \/ \E s \in Sessions : ReceiveDisconnect(s) /\ UNCHANGED <<rvars, svars>>
    \/ \E s \in Sessions : ReceiveError(s) /\ UNCHANGED <<rvars, svars>>
    \/ \E s \in Sessions : ClientClose(s) /\ UNCHANGED <<rvars, svars>>

\* the request coordinator
ChatNext ==
    \/ \E r \in Requests, auto \in BOOLEAN : StartChat(r, auto) /\ UNCHANGED <<rvars, svars>>
    \/ \E r \in Requests : BroadcastSent(r) /\ UNCHANGED <<rvars, svars>>

\* the inbound traffic and the per-session tasks
LoopNext ==
    \/ \E s \in Sessions : ReceiveText(s) /\ UNCHANGED <<rvars, svars>>
    \/ \E s \in Sessions : ReceiveTimedOut(s) /\ UNCHANGED <<rvars, svars>>
    \/ \E s \in Sessions : LoopSendDone(s) /\ UNCHANGED <<rvars, svars>>
    \/ \E s \in Sessions : HeartbeatWake(s) /\ UNCHANGED <<rvars, svars>>
    \/ \E s \in Sessions : HeartbeatSent(s) /\ UNCHANGED <<rvars, svars>>
    \/ \E s \in Sessions : MetricsWake(s) /\ UNCHANGED <<rvars, svars>>
    \/ \E s \in Sessions : MetricsSent(s) /\ UNCHANGED <<rvars, svars>>

HubNext == SessionNext \/ ChatNext

TaskNext == SessionNext \/ LoopNext

FullNext == SessionNext \/ LoopNext \/ ChatNext

TimedNext == TaskNext \/ (Tick /\ UNCHANGED <<rvars, svars>>)

\* Hub and coordinator within a span too short for any inbound message or
\* timer: the tasks are created and cancelled but never wake.
Init == InitWith(NSessions, NRequests, FALSE) /\ RouterInit(0, 0) /\ ServerIdle
Spec == Init /\ [][HubNext]_vars

\* The sessions with their read loops and tasks while no request arrives;
\* sleeps of any duration.
TaskInit == InitWith(NSessions, 0, FALSE) /\ RouterInit(0, 0) /\ ServerIdle
TaskSpec == TaskInit /\ [][TaskNext]_vars

\* Everything, sleeps of any duration.
FullInit == InitWith(NSessions, FullRequests, FALSE) /\ RouterInit(0, 0) /\ ServerIdle
FullSpec == FullInit /\ [][FullNext]_vars

\* The sessions with their read loops and tasks, with the sleeps' durations.
TimedInit == InitWith(TimedSessions, 0, TRUE) /\ RouterInit(0, 0) /\ ServerIdle
TimedSpec == TimedInit /\ [][TimedNext]_vars

\* The sessions, their tasks and the requests, with the sleeps' durations.
FeedNext == FullNext \/ (Tick /\ UNCHANGED <<rvars, svars>>)
FeedInit ==
    InitWith(FeedSessions, FeedRequests, TRUE) /\ RouterInit(0, 0) /\ ServerIdle
FeedSpec == FeedInit /\ [][FeedNext]_vars

\* ---- the order of the sends on one transport ------------------------------
\* A transport takes the events in the order in which send_text is called on
\* it.  The step that brings a handler, a task or a broadcast pass to its wait
\* in a send is the step that calls send_text.

\* request r calls send_text on the transport of s in this step: its pass
\* starts with s or goes on to s, or its next pass starts with s
BroadcastCalls(r, s) ==
    /\ chat'[r].pc = "send"
    /\ chat'[r].cur = s
    /\ chat'[r] # chat[r]

\* the events whose send on the transport of s is called in this step, in
\* the order of the calls
Called(s) ==
    (IF ws[s] # "greet" /\ ws'[s] = "greet"
     THEN <<Greeting(backend)>> ELSE <<>>)
    \o (IF hb[s] # "send" /\ hb'[s] = "send"
        THEN <<[NoEvent EXCEPT !.type = "heartbeat"]>> ELSE <<>>)
    \o (IF met[s] # "send" /\ met'[s] = "send"
        THEN <<[NoEvent EXCEPT !.type = "system_metrics"]>> ELSE <<>>)
    \o (IF \E r \in Requests : BroadcastCalls(r, s)
        THEN <<[NoEvent EXCEPT
                  !.type = Head(chat'[CHOOSE r \in Requests :
                                        BroadcastCalls(r, s)].evs)]>>
        ELSE <<>>)

\* inbox[s] keeps the first MaxLog events of the transport of s
Logged ==
    /\ inbox' = [s \in Sessions |->
                   SubSeq(inbox[s] \o Called(s), 1,
                          Min({MaxLog, Len(inbox[s] \o Called(s))}))]
    /\ UNCHANGED <<rvars, backend, req, events>>

\* The sessions, their tasks and the requests, with the log of each transport.
OrderNext ==
    \/ \E s \in Sessions : Connect(s) /\ Logged
    \/ \E s \in Sessions : Greeted(s) /\ Logged
    \/ \E s \in Sessions : ReceiveDisconnect(s) /\ Logged
    \/ \E s \in Sessions : ClientClose(s) /\ Logged
    \/ \E s \in Sessions : HeartbeatWake(s) /\ Logged
    \/ \E s \in Sessions : HeartbeatSent(s) /\ Logged
    \/ \E s \in Sessions : MetricsWake(s) /\ Logged
    \/ \E s \in Sessions : MetricsSent(s) /\ Logged
    \/ \E r \in Requests, auto \in BOOLEAN : StartChat(r, auto) /\ Logged
    \/ \E r \in Requests : BroadcastSent(r) /\ Logged
OrderInit ==
    /\ InitWith(OrderSessions, OrderRequests, FALSE)
    /\ RouterInit(0, 0)
    /\ ServerIdle
OrderSpec == OrderInit /\ [][OrderNext]_allvars

\* One call of analyze_task on each text.
ScoreNext == Analyze
ScoreInit ==
    InitWith(0, 0, FALSE) /\ RouterInit(MaxParts, 1) /\ ServerIdle
ScoreSpec == ScoreInit /\ [][ScoreNext]_rvars

\* One call of select_best_agent or get_agent_suggestions on each text.
RouteNext ==
    \/ \E threshold \in Thresholds : Route(threshold)
    \/ \E top_n \in 0..MaxTopN : Suggest(top_n)
RouteInit ==
    InitWith(0, 0, FALSE) /\ RouterInit(MaxParts, 1) /\ ServerIdle
RouteSpec == RouteInit /\ [][RouteNext]_rvars

\* The methods of the selector the backends share, called with their defaults in
\* any order, while the sessions connect and disconnect.
CallsNext ==
    \/ Analyze
    \/ Route(DefaultThreshold)
    \/ Suggest(DefaultTopN)
    \/ \E selected_agent \in AgentNames : Explain(selected_agent)
    \/ SessionNext
CallsInit ==
    /\ InitWith(CallSessions, 0, FALSE)
    /\ RouterInit(CallParts, MaxCalls)
    /\ ServerIdle
CallsSpec == CallsInit /\ [][CallsNext]_<<vars, rvars>>

\* The event loop runs every task that is ready: each step of a handler, of
\* a task and of a coordinator that stays possible is taken.  What the
\* clients do (connect, send, close) and when requests arrive is not forced.
Fairness ==
    /\ \A s \in Sessions : WF_vars(Greeted(s))
    /\ \A s \in Sessions : WF_vars(LoopSendDone(s))
    /\ \A s \in Sessions : WF_vars(ReceiveDisconnect(s))
    /\ \A s \in Sessions : WF_vars(HeartbeatSent(s))
    /\ \A s \in Sessions : WF_vars(MetricsSent(s))
    /\ \A r \in Requests : WF_vars(BroadcastSent(r))

FairInit == InitWith(FairSessions, FairRequests, FALSE) /\ RouterInit(0, 0) /\ ServerIdle
FairSpec == FairInit /\ [][FullNext]_vars /\ Fairness

\* the handlers of the sessions
WireNext ==
    \/ \E s \in Sessions : Accept(s) /\ UNCHANGED others
    \/ \E s \in Sessions : Established(s) /\ UNCHANGED others
    \/ \E s \in Sessions, payload \in Payloads :
           Inbound(s, payload) /\ UNCHANGED others
    \/ \E s \in Sessions : Replied(s) /\ UNCHANGED others
    \/ \E s \in Sessions : SystemMetrics(s) /\ UNCHANGED others
    \/ \E s \in Sessions : Dropped(s) /\ UNCHANGED others
    \/ \E s \in Sessions : Hangup(s) /\ UNCHANGED others

\* one request
ChatFlowNext ==
    \/ \E agent_type \in AgentTypes, auto_select \in BOOLEAN :
           Post(agent_type, auto_select) /\ UNCHANGED others
    \/ Broadcast /\ UNCHANGED others
    \/ \E outcome \in {"ok", "raises"} : Executed(outcome) /\ UNCHANGED others

\* The sessions of each program and what their clients send.
WireInit ==
    /\ InitWith(WireSessions, 0, FALSE)
    /\ RouterInit(0, 0)
    /\ ServerInit(Backends)
WireSpec == WireInit /\ [][WireNext]_allvars

\* One request to each program while the sessions come and go.
ServeInit ==
    /\ InitWith(ChatSessions, 0, FALSE)
    /\ RouterInit(ChatParts, 0)
    /\ ServerInit(Backends)
ServeNext == ChatFlowNext \/ WireNext
ServeSpec == ServeInit /\ [][ServeNext]_allvars

\* ---- properties ---------------------------------------------------------
Live == Range(connected_clients)

\* s completed the handshake (it was appended to the live list)
Joined(s) == ws[s] \notin {"absent", "idle"}

\* the sessions that received event ev of request r
Delivered(r, ev) == {s \in Sessions : ev \in Range(got[s][r])}

TasksEnded(s) == ~Running(hb[s]) /\ ~Running(met[s])

\* C1: a broadcast pass that no other task disturbed delivers the event to
\* every session of the list whose transport is open, removes exactly the
\* sessions whose send failed (keeping the others in order), and raises
\* nothing to its caller.
C1_BroadcastToleratesClosed ==
    \A r \in Requests :
        LET p == last[r]
            delivered == Delivered(r, p.ev)
        IN (p.ev # "none" /\ p.quiet) =>
            /\ ~p.raised
            /\ \A s \in Range(p.start) : open[s] => s \in delivered
            /\ Range(p.failed) = Range(p.start) \ delivered
            /\ \A s \in Range(p.failed) : ~open[s]
            /\ p.after = SelectSeq(p.start, LAMBDA s : s \notin Range(p.failed))

\* an undisturbed pass over two sessions, one delivered to, one removed
C1_Witness ==
    \E r \in Requests :
        /\ last[r].ev # "none" /\ last[r].quiet
        /\ Len(last[r].start) >= 2
        /\ Len(last[r].failed) = 1
        /\ Len(last[r].after) >= 1
        /\ Delivered(r, last[r].ev) = Range(last[r].after)

\* C2: every session that is in the live list from the start to the end of
\* a broadcast pass and whose transport is open receives the event of that
\* pass, whatever connects and disconnects happen while the pass waits in
\* its sends.  (The pass itself changes the list only in its removal loop,
\* after its last send: BroadcastSent.)
C2_BroadcastNotCorrupted ==
    \A r \in Requests :
        last[r].ev # "none" =>
            \A s \in last[r].stable :
                open[s] => s \in Delivered(r, last[r].ev)

\* C3: a session that stays in the live list with an open transport for a
\* whole auto-routed request receives agent_selection, agent_status and then
\* one of agent_response / agent_error, in this order.
C3_RequestEventOrder ==
    \A r \in Requests :
        (chat[r].pc = "done" /\ chat[r].auto) =>
            \A s \in reqStable[r] :
                open[s] =>
                    got[s][r] \in
                        {<<"agent_selection", "agent_status", "agent_response">>,
                         <<"agent_selection", "agent_status", "agent_error">>}

\* C4: a session that has left the live list has had its heartbeat and
\* metrics tasks cancelled before: neither of them is sleeping or sending
\* while the session is out of the list.
C4_CleanupBeforeRemoval ==
    \A s \in Sessions :
        (Joined(s) /\ s \notin Live) => TasksEnded(s)

\* C5: one heartbeat interval after the handler of a session cleaned up, the
\* heartbeat task of the session has terminated: it is neither sleeping nor
\* sending, so no heartbeat goes out from then on.
C5_HeartbeatStopsWithinInterval ==
    \A s \in Sessions :
        (ws[s] = "closed" /\ sinceClose[s] >= HeartbeatInterval) =>
            ~Running(hb[s])

\* a heartbeat task that was cancelled, a full interval after the cleanup
C5_Witness ==
    \E s \in Sessions :
        /\ ws[s] = "closed"
        /\ sinceClose[s] >= HeartbeatInterval
        /\ hb[s] = "cancelled"

\* the step in which the handler of s runs its finally block
CleansUp(s) == ws[s] # "closed" /\ ws'[s] = "closed"

\* C6: the cleanup of a session ends the heartbeat and metrics tasks of that
\* session and leaves every other session's tasks (and timers) as they are
\* and every other session in the live list.
C6_DisconnectCancelsOwnTasksOnly ==
    [][\A s \in Sessions :
         CleansUp(s) =>
            /\ ~Running(hb'[s]) /\ ~Running(met'[s])
            /\ \A t \in Sessions \ {s} :
                 /\ hb'[t] = hb[t] /\ met'[t] = met[t]
                 /\ hbLeft'[t] = hbLeft[t] /\ metLeft'[t] = metLeft[t]
                 /\ (t \in Live) = (t \in Range(connected_clients'))]_vars

\* a session cleaned up with its tasks cancelled while another session is in
\* the live list with both tasks running
C6_Witness ==
    \E s, t \in Sessions :
        /\ s # t
        /\ ws[s] = "closed" /\ hb[s] = "cancelled" /\ met[s] = "cancelled"
        /\ t \in Live /\ Running(hb[t]) /\ Running(met[t])

\* C7: disconnect is idempotent and never raises: on a session that is not
\* in the live list it changes nothing, on one that is it removes it and a
\* second call changes nothing; no handler and no broadcast ever dies of an
\* exception; and a send to a session that has been disconnected returns
\* false without raising.
C7_DisconnectIdempotent ==
    /\ \A s \in Sessions :
         LET d == disconnect(connected_clients, s) IN
         /\ ~d.raised
         /\ s \notin Range(d.val)
         /\ s \notin Live => d.val = connected_clients
         /\ disconnect(d.val, s) = [val |-> d.val, raised |-> FALSE]
    /\ \A s \in Sessions : ws[s] # "crashed"
    /\ \A r \in Requests : ~chat[r].raised /\ ~last[r].raised
    /\ \A s \in Sessions :
         (Joined(s) /\ s \notin Live) =>
            \A o \in SendOutcomes(s) :
               safe_send_to_client(o) = [ret |-> FALSE, raised |-> FALSE]

\* a session removed by a broadcast (its send failed) and also cleaned up by
\* its handler: the second of the two removals found it absent
C7_Witness ==
    \E s \in Sessions, r \in Requests :
        /\ ws[s] = "closed"
        /\ s \in Range(last[r].failed)
        /\ s \notin Live

\* a step in which only a send to s completes: of its heartbeat or metrics
\* task, of its handler, or of a broadcast pass that goes on afterwards
OnlySendCompletes(s) ==
    \/ hb[s] = "send" /\ hb'[s] \in {"sleep", "done"}
    \/ met[s] = "send" /\ met'[s] \in {"sleep", "done"}
    \/ ws[s] \in {"greet", "echo", "ping"} /\ ws'[s] = "recv"
    \/ \E r \in Requests :
          /\ chat[r].pc = "send" /\ chat[r].cur = s
          /\ chat'[r].pc = "send" /\ chat'[r].evs = chat[r].evs
          /\ chat'[r].idx = chat[r].idx + 1

\* C8: safe_send_to_client returns true exactly when the transport accepted
\* the event, false for every failure, never raises, and a send leaves the
\* live list as it is.
C8_SafeSendContract ==
    [][/\ \A s \in Sessions : \A o \in SendOutcomes(s) :
            safe_send_to_client(o) = [ret |-> (o = "ok"), raised |-> FALSE]
       /\ \A s \in Sessions :
            OnlySendCompletes(s) => connected_clients' = connected_clients]_vars

\* a heartbeat send failed (the task broke out of its loop) and the session
\* is still in the live list with its handler running
C8_Witness ==
    \E s \in Sessions :
        /\ hb[s] = "done" /\ s \in Live /\ ws[s] \in {"recv", "echo", "ping"}

\* C9: a send fails only on a closed transport (SendOutcomes); once the
\* transport of a session is closed, whichever send fails, the session is
\* eventually out of the live list with both tasks ended, and stays so.
TornDown(s) == s \notin Live /\ TasksEnded(s)

C9_SendFailureLeadsToTeardown ==
    \A s \in Sessions : (Joined(s) /\ ~open[s]) ~> [](TornDown(s))

\* a heartbeat send failed, later the handler cleaned up
C9_Witness ==
    \E s \in Sessions :
        /\ hb[s] = "done" /\ ws[s] = "closed" /\ TornDown(s)

\* C10: a session leaves the live list only by its own handler's cleanup or
\* because a send to it failed in the broadcast pass that removes it, and a
\* running task of a session stops only by that cleanup or by its own failed
\* send: the failure of another session's send removes and stops nothing.
C10_DeliveryErrorIsLocal ==
    [][\A t \in Sessions :
         ~CleansUp(t) =>
            /\ (t \in Live /\ t \notin Range(connected_clients')) =>
                  /\ ~open[t]
                  /\ \E r \in Requests :
                        last'[r] # last[r] /\ t \in Range(last'[r].failed)
            /\ (Running(hb[t]) /\ ~Running(hb'[t])) =>
                  (hb[t] = "send" /\ ~open[t])
            /\ (Running(met[t]) /\ ~Running(met'[t])) =>
                  (met[t] = "send" /\ ~open[t])]_vars

\* a pass removed one session for a failed send while another session, which
\* received the event, is still in the list with both tasks running
C10_Witness ==
    \E r \in Requests, s, t \in Sessions :
        /\ s # t
        /\ s \in Range(last[r].failed) /\ s \notin Live
        /\ t \in Delivered(r, last[r].ev) /\ t \in Live
        /\ Running(hb[t]) /\ Running(met[t])

\* the sessions appended, cleaned up and found failed by a pass in one step
JoinsNow == {s \in Sessions : ws[s] = "idle" /\ ws'[s] = "greet"}
CleansUpNow == {s \in Sessions : CleansUp(s)}
FailedNow ==
    UNION {Range(last'[r].failed) : r \in {x \in Requests : last'[x] # last[x]}}

\* C11: no update of the live list is lost.  Every step changes it by exactly
\* the appends, the handler cleanups and the removals of failed sends that
\* happen in the step, whatever passes are suspended meanwhile; so the list
\* holds each session at most once, and holds exactly the sessions that
\* completed the handshake and were neither cleaned up nor removed for a
\* failed broadcast send.
C11_NoLostUpdate ==
    [][/\ Len(connected_clients') = Cardinality(Range(connected_clients'))
       /\ Range(connected_clients') =
             (Live \cup JoinsNow) \ (CleansUpNow \cup FailedNow)
       /\ \A s \in Range(connected_clients') :
             ws'[s] \in {"greet", "recv", "echo", "ping"}]_vars

\* a pass that other tasks disturbed ended by removing a session whose
\* handler has not cleaned up, while a session that connected after the pass
\* began is in the list
C11_Witness ==
    \E r \in Requests, s, t \in Sessions :
        /\ ~last[r].quiet
        /\ s \in Range(last[r].failed) /\ s \notin Live /\ ws[s] = "recv"
        /\ t \in Live /\ t \notin Range(last[r].start)

\* ---- properties of the router ---------------------------------------------
\* some keyword of some agent is a substring of the lower-cased text
AnyKeywordIn(text) ==
    \E i \in 1..Len(agents) :
        \E j \in 1..Len(agents[i].keywords) :
            contains(lower(text), agents[i].keywords[j])

\* the confidences analyze_task returned, in the order of the dict
Confidences == MapSeq(LAMBDA item : item.value, call.result.val)

\* C12: every confidence analyze_task returns lies in [0, 1], and whenever a
\* keyword of some agent is a substring of the lower-cased text, some agent
\* has the confidence 1.0 exactly.
C12_Normalised ==
    call.fn = "analyze_task" =>
        /\ ~call.result.raised
        /\ \A i \in 1..Len(Confidences) :
               FLeq(FZero, Confidences[i]) /\ FLeq(Confidences[i], FInt(1))
        /\ AnyKeywordIn(message) =>
               \E i \in 1..Len(Confidences) : Confidences[i] = FInt(1)

C12_Witness ==
    /\ call.fn = "analyze_task"
    /\ AnyKeywordIn(message)
    /\ \E i, j \in 1..Len(Confidences) :
           /\ Confidences[i] = FInt(1)
           /\ FLess(FZero, Confidences[j])
           /\ FLess(Confidences[j], FInt(1))

\* C13: when no keyword of any agent is a substring of the text (the empty
\* text included), analyze_task returns an entry for every agent, every entry
\* is 0, and nothing is raised.
C13_NoMatchAllZero ==
    (call.fn = "analyze_task" /\ ~AnyKeywordIn(message)) =>
        /\ ~call.result.raised
        /\ Len(call.result.val) = Len(agents)
        /\ \A i \in 1..Len(agents) :
               /\ call.result.val[i].key = agents[i].name
               /\ call.result.val[i].value = FZero

C13_Witness ==
    /\ call.fn = "analyze_task"
    /\ message = <<>>
    /\ ~call.result.raised
    /\ Len(call.result.val) = Len(agents)
    /\ \A i \in 1..Len(call.result.val) : call.result.val[i].value = FZero

\* what analyze_task gives for the text: the items of the dict
Scores == analyze_task(agents, message).val

\* the places in the dict of the items with the greatest confidence
Top(scores) ==
    {i \in 1..Len(scores) :
        \A j \in 1..Len(scores) : FLeq(scores[j].value, scores[i].value)}

\* the place of the agent of that name in the catalog
Place(name) == CHOOSE i \in 1..Len(agents) : agents[i].name = name

\* C14: select_best_agent reports the greatest computed confidence and the
\* unmodified scores; below the threshold it names "manus", at or above the
\* threshold it names an agent with the greatest confidence.
C14_ThresholdOverride ==
    call.fn = "select_best_agent" =>
        \A scores \in {Scores} :
            /\ ~call.result.raised
            /\ call.result.scores = scores
            /\ \A i \in Top(scores) :
                   /\ call.result.confidence = scores[i].value
                   /\ FLess(scores[i].value, call.threshold) =>
                          call.result.agent = "manus"
                   /\ ~FLess(scores[i].value, call.threshold) =>
                          call.result.agent \in {scores[j].key : j \in Top(scores)}

C14_Witness ==
    /\ call.fn = "select_best_agent"
    /\ call.result.agent = "manus"
    /\ call.result.confidence = FInt(1)
    /\ FLess(call.result.confidence, call.threshold)
    /\ call.result.scores[Place("manus")].value = FZero

\* C15: the agent select_best_agent picks has the greatest confidence, and of
\* several agents with the greatest confidence it is the first in the order
\* of the catalog: manus, browser, data, swe.  (The pick is what is returned
\* unless the confidence is below the threshold; with the default threshold
\* it is what is returned in every case.)
C15_FirstOfTies ==
    (/\ call.fn = "select_best_agent"
     /\ \/ ~FLess(call.result.confidence, call.threshold)
        \/ call.threshold = DefaultThreshold) =>
        /\ MapSeq(LAMBDA agent : agent.name, agents) =
               <<"manus", "browser", "data", "swe">>
        /\ \A scores \in {Scores} :
               /\ Top(scores) # {}
               /\ Place(call.result.agent) = Min(Top(scores))

C15_Witness ==
    /\ call.fn = "select_best_agent"
    /\ call.threshold = DefaultThreshold
    /\ call.result.agent = "browser"
    /\ \E i \in 1..Len(call.result.scores) :
           /\ i > Place("browser")
           /\ call.result.scores[i].value = call.result.confidence

\* C16: get_agent_suggestions(task, top_n) for top_n >= 0 returns
\* min(top_n, number of agents) triples (name, confidence, description), by
\* descending confidence, agents of equal confidence in the order of the
\* catalog; they are the first of all the agents in that order, and each
\* confidence and description is the one of analyze_task and of the catalog.
C16_TopNSorted ==
    call.fn = "get_agent_suggestions" =>
        \A scores \in {Scores}, suggestions \in {call.result.val} :
            /\ ~call.result.raised
            /\ Len(suggestions) = Min({call.top_n, Len(agents)})
            /\ \A i \in 1..Len(suggestions) :
                   \E j \in 1..Len(agents) :
                       /\ suggestions[i].agent_name = agents[j].name
                       /\ suggestions[i].agent_name = scores[j].key
                       /\ suggestions[i].confidence = scores[j].value
                       /\ suggestions[i].description = agents[j].description
            /\ \A i, k \in 1..Len(suggestions) :
                   i < k =>
                       \/ FLess(suggestions[k].confidence,
                                suggestions[i].confidence)
                       \/ /\ suggestions[k].confidence = suggestions[i].confidence
                          /\ Place(suggestions[i].agent_name) <
                                 Place(suggestions[k].agent_name)
            /\ \A j \in 1..Len(agents) :
                   (\A i \in 1..Len(suggestions) :
                        suggestions[i].agent_name # agents[j].name) =>
                       \A i \in 1..Len(suggestions) :
                           \/ FLess(scores[j].value, suggestions[i].confidence)
                           \/ /\ scores[j].value = suggestions[i].confidence
                              /\ Place(suggestions[i].agent_name) < j

C16_Witness ==
    /\ call.fn = "get_agent_suggestions"
    /\ call.top_n > Len(agents)
    /\ Len(call.result.val) = Len(agents)
    /\ call.result.val[1].confidence = call.result.val[2].confidence
    /\ FLess(call.result.val[3].confidence, call.result.val[2].confidence)
    /\ call.result.val[3].confidence = call.result.val[4].confidence

\* the keywords of the agent that are substrings of the lower-cased text, and
\* those of them that are the whole trimmed, lower-cased text
Matched(agent, text) ==
    {j \in 1..Len(agent.keywords) : contains(lower(text), agent.keywords[j])}

Exact(agent, text) ==
    {j \in Matched(agent, text) : agent.keywords[j] = strip(lower(text))}

\* what the keyword loop of analyze_task computes for the agent
Counted(agent, text) ==
    count_matches(agent.keywords, lower(text), 1,
                  [score |-> FZero, keyword_matches |-> 0])

\* C17: a keyword that is a substring of the lower-cased text adds 1.0 to the
\* raw score of its agent, or 2.0 when it is the whole trimmed, lower-cased
\* text; a keyword that is not a substring adds nothing.
C17_ExactMatchBonus ==
    call.fn = "analyze_task" =>
        \A i \in 1..Len(agents) :
            \A counted \in {Counted(agents[i], message)} :
                /\ counted.keyword_matches =
                       Cardinality(Matched(agents[i], message))
                /\ counted.score =
                       FInt(Cardinality(Matched(agents[i], message))
                            + Cardinality(Exact(agents[i], message)))

C17_Witness ==
    /\ call.fn = "analyze_task"
    /\ message # strip(lower(message))
    /\ \E i \in 1..Len(agents) :
           /\ Exact(agents[i], message) # {}
           /\ Matched(agents[i], message) # Exact(agents[i], message)
           /\ Counted(agents[i], message).score =
                  FInt(Cardinality(Matched(agents[i], message)) + 1)

\* the sum of the contributions of the keywords of the agent
Contributions(agent, text) ==
    FInt(Cardinality(Matched(agent, text)) + Cardinality(Exact(agent, text)))

\* 1 + 0.2 x (k - 1)
Factor(k) == FAdd(FInt(1), FMul(BonusStep, FInt(k - 1)))

\* (sum x weight) x factor and (sum x factor) x weight, as floats
WeightFirst(sum, weight, k) ==
    IF k > 1 THEN FMul(FMul(sum, FInt(weight)), Factor(k))
    ELSE FMul(sum, FInt(weight))

BonusFirst(sum, weight, k) ==
    IF k > 1 THEN FMul(FMul(sum, Factor(k)), FInt(weight))
    ELSE FMul(sum, FInt(weight))

SameCall(a, b) ==
    /\ a.fn = b.fn
    /\ a.fn \in {"analyze_task", "select_best_agent", "get_agent_suggestions"}
    /\ a.threshold = b.threshold
    /\ a.top_n = b.top_n

C20_CatalogUnchanged ==
    /\ agents # <<>>
    /\ agents = Catalog
    /\ \A i \in 1..Len(agents) : agents[i].keywords # <<>>

C20_Witness ==
    /\ call.fn = "explain_selection"
    /\ earlier.fn \in {"analyze_task", "select_best_agent",
                       "get_agent_suggestions"}
    /\ earlier.at > 1
    /\ call.at > earlier.at
    /\ agents = Catalog

\* C21: get_agent_suggestions on the documented example with top_n = 3 gives
\* browser first and data second, both before manus.
C21_DocumentedExample ==
    (/\ call.fn = "get_agent_suggestions"
     /\ message = Example
     /\ call.top_n = DefaultTopN) =>
        /\ Len(call.result.val) = DefaultTopN
        /\ call.result.val[1].agent_name = "browser"
        /\ call.result.val[2].agent_name = "data"
        /\ \A i \in 1..Len(call.result.val) :
               call.result.val[i].agent_name = "manus" => i > 2

C21_Witness ==
    /\ call.fn = "get_agent_suggestions"
    /\ message = Example
    /\ call.top_n = DefaultTopN
    /\ call.result.val[1].agent_name = "browser"
    /\ call.result.val[1].confidence = FInt(1)
    /\ call.result.val[2].agent_name = "data"
    /\ call.result.val[2].confidence = FLit(4, 7)
    /\ call.result.val[3].agent_name = "manus"
    /\ call.result.val[3].confidence = FLit(5, 63)

\* ---- properties of the four servers ----------------------------------------
\* the events of this type the request broadcast, in order
EventsOfType(type) == SelectSeq(events, LAMBDA e : e.type = type)

\* the positions in `events` of the events of this type
PositionsOf(type) == {i \in 1..Len(events) : events[i].type = type}

\* the sessions of the live list whose transport accepts sends
Reachable == {s \in Range(connected_clients) : open[s]}

\* a step of the request that sends nothing and touches no session
Untouched == UNCHANGED <<connected_clients, open, ws, hb, met, inbox>>

\* a broadcast step delivered this event to the reachable sessions only, kept
\* them in the live list in their order, and moved no handler or task
DeliveredToReachable(e) ==
    /\ \A s \in Sessions :
         inbox'[s] = IF s \in Reachable THEN Append(inbox[s], e) ELSE inbox[s]
    /\ connected_clients' = SelectSeq(connected_clients, LAMBDA s : open[s])
    /\ UNCHANGED <<open, ws, hb, met>>

\* C22: in main and simple_backend, when the executor raises during a chat
\* request, the exception is caught: exactly one agent_error event, naming the
\* handler that was executing and carrying the exception's message, is
\* broadcast after the agent_status event, no agent_response is broadcast,
\* and the step that raises and the broadcast of the error leave every
\* reachable session in the live list with its handler where it was.
C22_ExecutorErrorReported ==
    /\ []((backend \in Managed /\ req.outcome = "raises") =>
            /\ req.pc \in {"agent_error", "done"}
            /\ EventsOfType("agent_response") = <<>>
            /\ \E i \in PositionsOf("agent_status") : events[i].agent = req.agent
            /\ req.pc = "agent_error" => EventsOfType("agent_error") = <<>>
            /\ req.pc = "done" =>
                 /\ Len(EventsOfType("agent_error")) = 1
                 /\ events[Len(events)].type = "agent_error"
                 /\ events[Len(events)].agent = req.agent
                 /\ events[Len(events)].error = ExecutorError
                 /\ \A i \in PositionsOf("agent_status") : i < Len(events)
                 /\ req.status = 500)
    /\ [][(backend \in Managed /\ req.pc = "run" /\ req'.outcome = "raises") =>
            Untouched]_allvars
    /\ [][(backend \in Managed /\ req.pc = "agent_error" /\ req'.pc = "done") =>
            DeliveredToReachable(events'[Len(events')])]_allvars

C22_Witness ==
    /\ backend = "simple_backend"
    /\ req.pc = "done"
    /\ req.outcome = "raises"
    /\ req.routed
    /\ req.agent = "browser"
    /\ connected_clients = <<1>>
    /\ open[1]
    /\ ws[1] = "recv"
    /\ Len(inbox[1]) > 0
    /\ inbox[1][Len(inbox[1])].type = "agent_error"
    /\ inbox[1][Len(inbox[1])].agent = "browser"

\* the request named a handler: its agent_type is not "auto"
Explicit(r) == r.agent_type # "auto"

\* agent_type is a key of the handler table
Known(agent_type) == \E i \in 1..Len(HandlerTable) : HandlerTable[i] = agent_type

\* the last event the request broadcast
LastEvent == events[Len(events)]

\* C23: in real_backend_fixed, when the LLM call of a chat request fails, the
\* last event broadcast for the request is agent_error, not agent_response,
\* and it names the handler of the request.
C23_LlmFailureIsAgentError ==
    (/\ backend = "real_backend_fixed"
     /\ req.pc = "done"
     /\ req.outcome = "raises") =>
        /\ events # <<>>
        /\ LastEvent.type = "agent_error"
        /\ LastEvent.agent = req.agent
        /\ EventsOfType("agent_response") = <<>>

\* C24: a finished chat request whose agent_type is neither "auto" nor a key
\* of the handler table was reported by an agent_error event, and no handler
\* was run for it.
C24_UnknownHandlerIsError ==
    (/\ req.pc = "done"
     /\ Explicit(req)
     /\ ~Known(req.agent_type)) =>
        /\ EventsOfType("agent_error") # <<>>
        /\ EventsOfType("agent_response") = <<>>
        /\ req.outcome = ""

\* C25: in simple_backend and real_backend_fixed the router is consulted
\* exactly when agent_type is "auto": such a request broadcasts first an
\* agent_selection event with the handler and confidence of select_best_agent
\* and every later event names that handler; a request that names a handler
\* broadcasts no agent_selection and every event names the handler it named.
C25_RoutedExactlyWhenAuto ==
    (/\ backend \in {"simple_backend", "real_backend_fixed"}
     /\ req.pc = "done"
     /\ req.status # 404) =>
        /\ req.routed <=> ~Explicit(req)
        /\ Explicit(req) =>
             /\ EventsOfType("agent_selection") = <<>>
             /\ \A i \in 1..Len(events) : events[i].agent = req.agent_type
        /\ ~Explicit(req) =>
             /\ Len(EventsOfType("agent_selection")) = 1
             /\ events[1].type = "agent_selection"
             /\ \A d \in {select_best_agent(agents, message, DefaultThreshold)} :
                  /\ events[1].agent = d.agent
                  /\ events[1].confidence = d.confidence
                  /\ \A i \in 1..Len(events) : events[i].agent = d.agent

\* C26: in real_backend_v2 a finished request with agent_type "auto" and
\* auto_select broadcast agent_selection with the decision of
\* select_best_agent, then agent_status, then agent_response, and was
\* answered with status "success".
C26_V2AutoRequest ==
    (/\ backend = "real_backend_v2"
     /\ req.pc = "done"
     /\ req.agent_type = "auto"
     /\ req.auto_select) =>
        /\ Len(events) = 3
        /\ events[1].type = "agent_selection"
        /\ events[2].type = "agent_status"
        /\ events[3].type = "agent_response"
        /\ \A d \in {select_best_agent(agents, message, DefaultThreshold)} :
             /\ events[1].agent = d.agent
             /\ events[1].confidence = d.confidence
        /\ req.status = 200

\* C27: in real_backend_fixed a read that times out is not an error.  The
\* wait of a read starts at 60 and a read times out only when nothing of it
\* is left; the step sends the keep-alive ping and changes neither the live
\* list nor the transport nor the two tasks; whatever the send of the ping
\* gives, the handler reads again with a new wait of 60, so the same holds
\* for every later timeout.  While the ping is sent on an open transport the
\* session is in the live list and both its tasks run.
C27_TimeoutIsNotAnError ==
    /\ [](\A s \in Sessions :
            (ws[s] = "ping" /\ open[s]) =>
                /\ s \in Range(connected_clients)
                /\ Running(hb[s])
                /\ Running(met[s]))
    /\ [][\A s \in Sessions :
            /\ (ws[s] = "recv" /\ ws'[s] = "ping") =>
                 /\ rdLeft[s] = 0
                 /\ UNCHANGED <<connected_clients, open, hb, met>>
            /\ (ws[s] = "ping" /\ ws'[s] # "ping") =>
                 /\ ws'[s] = "recv"
                 /\ rdLeft'[s] = ReceiveTimeout
                 /\ UNCHANGED <<connected_clients, open, hb, met>>
            /\ (ws[s] # "recv" /\ ws'[s] = "recv") =>
                 rdLeft'[s] = ReceiveTimeout]_vars

\* the read of session 1 timed out after its heartbeat task slept twice
C27_Witness ==
    /\ ws[1] = "ping"
    /\ open[1]
    /\ connected_clients = <<1>>
    /\ hb[1] = "sleep"
    /\ met[1] = "sleep"
    /\ hbLeft[1] = HeartbeatInterval
    /\ metLeft[1] = MetricsInterval

\* the pong event
Pong == [NoEvent EXCEPT !.type = "pong"]

\* C28: in main and simple_backend a handler that receives {"type": "ping"}
\* goes on to send pong, and touches nothing until then; when that send
\* completes on an open transport, one pong event was added to the inbox of
\* the same session, no other inbox changed, the live list is as it was and
\* contains the session, and the handler reads again.
C28_PingPong ==
    [][\A s \in Sessions :
         backend \in Managed =>
           /\ Inbound(s, "ping") =>
                /\ ws'[s] = "pong"
                /\ UNCHANGED <<connected_clients, inbox, open>>
           /\ (ws[s] = "pong" /\ ws'[s] # "pong" /\ open[s]) =>
                /\ inbox'[s] = Append(inbox[s], Pong)
                /\ \A x \in Sessions \ {s} : inbox'[x] = inbox[x]
                /\ connected_clients' = connected_clients
                /\ s \in Range(connected_clients)
                /\ ws'[s] = "recv"]_allvars

C28_Witness ==
    /\ backend = "main"
    /\ connected_clients = <<2, 1>>
    /\ open[1] /\ open[2]
    /\ ws[1] = "recv" /\ ws[2] = "recv"
    /\ inbox[1] = <<Greeting("main"), Pong>>
    /\ inbox[2] = <<Greeting("main")>>

\* the payloads a program gives no answer to: JSON objects of a type it does
\* not know, JSON that is no object, text that is no JSON
Unrecognized(b) ==
    {p \in Payloads : parse(p).raised \/ answer(b, parse(p).type) = "none"}

\* C29: in main and simple_backend a handler that receives an unrecognized or
\* malformed payload reads again: the session stays in the live list, the
\* live list and the transports are as they were, no inbox changed, and no
\* other handler moved.
C29_MalformedIsIgnored ==
    [][\A s \in Sessions :
         \A p \in Unrecognized(backend) :
           (backend \in Managed /\ Inbound(s, p)) =>
               /\ ws'[s] = "recv"
               /\ s \in Range(connected_clients')
               /\ UNCHANGED <<connected_clients, open, inbox>>
               /\ \A x \in Sessions \ {s} : ws'[x] = ws[x]]_allvars

\* C30: when the send of connection_established completes on an open
\* transport, the session is in the live list and its inbox, and no other,
\* gained one connection_established event that lists the keys of the handler
\* table and at least one feature.
C30_GreetingListsHandlersAndFeatures ==
    [][\A s \in Sessions :
         (ws[s] = "greet" /\ ws'[s] # "greet" /\ open[s]) =>
             /\ s \in Range(connected_clients')
             /\ Len(inbox'[s]) = Len(inbox[s]) + 1
             /\ \A x \in Sessions \ {s} : inbox'[x] = inbox[x]
             /\ \A e \in {inbox'[s][Len(inbox'[s])]} :
                  /\ e.type = "connection_established"
                  /\ e.agents = HandlerTable
                  /\ e.features # <<>>]_allvars

\* ---- the two tasks of a session ----------------------------------------------
\* a task that broke out of its loop or was cancelled
Over(t) == t \in {"done", "cancelled"}

\* the handler of s is in its read loop
Reading(s) == ws[s] \in {"recv", "echo", "ping"}

\* C31: the heartbeat task of a session sleeps 30 before each send, the first
\* included; it sends on the transport of its own session, so the send
\* succeeds exactly when that transport is open; after a send that succeeded
\* it sleeps 30 again, after its first send that failed it is over, and a
\* task that is over never sends again.  While the handler reads on an open
\* transport the task runs.
C31_HeartbeatCadence ==
    /\ [](\A s \in Sessions :
            (Reading(s) /\ open[s]) => Running(hb[s]))
    /\ [][\A s \in Sessions :
            /\ (hb[s] # "sleep" /\ hb'[s] = "sleep") =>
                 hbLeft'[s] = HeartbeatInterval
            /\ (hb[s] = "none" /\ hb'[s] # "none") => hb'[s] = "sleep"
            /\ (hb[s] = "sleep" /\ hb'[s] = "send") => hbLeft[s] = 0
            /\ (hb[s] = "sleep" /\ hb'[s] = "sleep") => hbLeft'[s] <= hbLeft[s]
            /\ (hb[s] = "send" /\ hb'[s] = "sleep") => open[s]
            /\ (hb[s] = "send" /\ hb'[s] = "done") => ~open[s]
            /\ (hb[s] = "send" /\ ~open[s]) => hb'[s] \in {"send", "done", "cancelled"}
            /\ hb'[s] = "send" => hb[s] \in {"sleep", "send"}
            /\ Over(hb[s]) => hb'[s] = hb[s]]_vars

\* the heartbeat task of session 1 ended on a failed send while the handler
\* still waits in its read
C31_Witness ==
    /\ hb[1] = "done"
    /\ ~open[1]
    /\ ws[1] = "recv"
    /\ 1 \in Live
    /\ Running(met[1])

\* C32: the metrics task of a session sleeps one interval before each send,
\* the first included, and sends on the transport of its own session: after
\* a send that succeeded it sleeps one interval again, after one that failed
\* it is over.  A session that left the live list has a closed transport, so
\* no send of its metrics task succeeds from then on, and a task that is over
\* never sends again.
C32_MetricsFeed ==
    /\ [](\A s \in Sessions :
            (Joined(s) /\ s \notin Live) => ~open[s])
    /\ [][\A s \in Sessions :
            /\ (met[s] # "sleep" /\ met'[s] = "sleep") =>
                 metLeft'[s] = MetricsInterval
            /\ (met[s] = "none" /\ met'[s] # "none") => met'[s] = "sleep"
            /\ (met[s] = "sleep" /\ met'[s] = "send") => metLeft[s] = 0
            /\ (met[s] = "sleep" /\ met'[s] = "sleep") => metLeft'[s] <= metLeft[s]
            /\ (met[s] = "send" /\ met'[s] = "sleep") =>
                 /\ open[s]
                 /\ s \in Live
            /\ (met[s] = "send" /\ met'[s] = "done") => ~open[s]
            /\ (met[s] = "send" /\ s \notin Live) =>
                 met'[s] \in {"send", "done", "cancelled"}
            /\ met'[s] = "send" => met[s] \in {"sleep", "send"}
            /\ Over(met[s]) => met'[s] = met[s]]_vars

\* a broadcast removed session 1 from the live list for a failed send; its
\* metrics task then woke and is sending on the closed transport
C32_Witness ==
    /\ 1 \notin Live
    /\ ws[1] = "recv"
    /\ met[1] = "send"
    /\ \E r \in Requests : 1 \in Range(last[r].failed)

\* ---- the confidence of the routed handler -------------------------------------
\* the thresholds t with 0 < t <= 1
UnitThresholds == {t \in Thresholds : FLess(FZero, t) /\ FLeq(t, FInt(1))}

\* C33: the confidence select_best_agent reports is 0.0 or 1.0 exactly; it is
\* 0.0 exactly when no keyword of any agent is in the text, and then "manus"
\* is the agent with and without the override; for a threshold t with
\* 0 < t <= 1 the agent is the one select_best_agent names with threshold 0.
C33_ConfidenceIsZeroOrOne ==
    call.fn = "select_best_agent" =>
        \A unforced \in {select_best_agent(agents, message, FZero)} :
            /\ call.result.confidence \in {FZero, FInt(1)}
            /\ (call.result.confidence = FZero) <=> ~AnyKeywordIn(message)
            /\ call.result.confidence = FZero =>
                 /\ call.result.agent = "manus"
                 /\ unforced.agent = "manus"
            /\ call.threshold \in UnitThresholds =>
                 call.result.agent = unforced.agent

\* a text of browser keywords routed with threshold 1.0: browser, as with
\* threshold 0
C33_Witness ==
    /\ call.fn = "select_best_agent"
    /\ call.threshold = FInt(1)
    /\ call.result.agent = "browser"
    /\ call.result.confidence = FInt(1)
    /\ \E i \in 1..Len(call.result.scores) :
         /\ FLess(FZero, call.result.scores[i].value)
         /\ FLess(call.result.scores[i].value, FInt(1))

\* ---- the events of one request ------------------------------------------------
\* the positions in `events` of the terminal events
Terminal == PositionsOf("agent_response") \cup PositionsOf("agent_error")

\* the types of the events the request broadcast, in order
EventTypes == [i \in 1..Len(events) |-> events[i].type]

\* C34: in main, simple_backend and real_backend_fixed a chat request
\* broadcasts at most one terminal event (agent_response or agent_error), it
\* is the last event of the request, and an agent_status event of the request
\* was broadcast before it.
C34_OneTerminalEvent ==
    backend # "real_backend_v2" =>
        /\ Cardinality(Terminal) <= 1
        /\ \A i \in Terminal :
             /\ i = Len(events)
             /\ req.pc = "done"
             /\ \E j \in PositionsOf("agent_status") : j < i
        /\ (req.pc = "done" /\ req.status # 404) => Cardinality(Terminal) = 1

\* a routed request of real_backend_fixed whose LLM call failed
C34_Witness ==
    /\ backend = "real_backend_fixed"
    /\ req.pc = "done"
    /\ req.outcome = "raises"
    /\ EventTypes = <<"agent_selection", "agent_status", "agent_response">>
    /\ connected_clients = <<1>>
    /\ Len(inbox[1]) >= 3

\* ---- the passes of the broadcasts ----------------------------------------------
\* no element of the sequence occurs twice
Once(seq) == \A i, j \in 1..Len(seq) : seq[i] = seq[j] => i = j

\* C35: each event of a request is broadcast by one pass, and whatever
\* connects and disconnects change the live list while the pass waits in a
\* send, no session receives the event twice.
C35_AtMostOncePerPass ==
    \A s \in Sessions : \A r \in Requests : Once(got[s][r])

\* a pass that another session joined while it waited in a send: both the
\* session it started with and the one that joined received the event, once
C35_Witness ==
    \E r \in Requests :
        /\ last[r].ev # "none"
        /\ ~last[r].quiet
        /\ last[r].start = <<1>>
        /\ last[r].after = <<1, 2>>
        /\ last[r].ev \in Range(got[1][r])
        /\ last[r].ev \in Range(got[2][r])

\* the live list without the sessions of `gone`, the others in their order
Without(gone) == SelectSeq(connected_clients, LAMBDA x : x \notin gone)

\* C36: the removal loop that ends a broadcast pass and the cleanup of a
\* handler never raise, also when another pass or the cleanup removed the same
\* session before: the step removes from the live list exactly the sessions
\* it was to remove that are still there and keeps every other session in
\* its place.
C36_ConcurrentRemovalsAreSafe ==
    /\ [](/\ \A r \in Requests : ~chat[r].raised /\ ~last[r].raised
          /\ \A s \in Sessions : ws[s] # "crashed")
    /\ [][/\ \A r \in Requests :
               last'[r] # last[r] =>
                   /\ ~last'[r].raised
                   /\ connected_clients' = Without(Range(last'[r].failed))
          /\ \A s \in Sessions :
               (Reading(s) /\ ~Reading(s)') =>
                   /\ ws'[s] = "closed"
                   /\ connected_clients' = Without({s})]_vars

\* two passes whose send to session 1 failed: the pass that ended second
\* found session 1 already removed, and session 2 is still in the live list
C36_Witness ==
    /\ last[1].ev # "none" /\ last[2].ev # "none"
    /\ 1 \in Range(last[1].failed)
    /\ 1 \in Range(last[2].failed)
    /\ 1 \in Range(last[1].after) \/ 1 \in Range(last[2].start)
    /\ ws[1] # "closed"
    /\ connected_clients = <<2>>
    /\ open[2]

\* C37: the first event on the transport of a session is its
\* connection_established event: no event of a broadcast, no heartbeat and no
\* system_metrics event is sent on it earlier, also when the session joins
\* the live list while a broadcast pass waits in a send.
C37_GreetingFirst ==
    \A s \in Sessions :
        /\ inbox[s] # <<>> => inbox[s][1].type = "connection_established"
        /\ Joined(s) => inbox[s] # <<>>

\* session 2 joined while the pass of request 1 waited in its send to
\* session 1; the pass went on to session 2, which had its greeting first
C37_Witness ==
    /\ last[1].ev # "none"
    /\ last[1].start = <<1>>
    /\ ~last[1].quiet
    /\ last[1].ev \in Range(got[2][1])
    /\ ws[2] = "greet"
    /\ inbox[2] = <<Greeting(backend)>>

\* C38: in real_backend_fixed the read loop of a handler ends only into the
\* finally block: in the step that ends it both tasks of the session stop
\* running and the session is out of the live list, whether the read raised
\* WebSocketDisconnect or anything else, and this stays so; hence a task that
\* runs belongs to a session whose handler is still in its read loop.
C38_CleanupAlwaysRuns ==
    /\ [](\A s \in Sessions :
            /\ (Running(hb[s]) \/ Running(met[s])) => Reading(s)
            /\ (Joined(s) /\ ~Reading(s) /\ ws[s] # "greet") =>
                 /\ ws[s] = "closed"
                 /\ s \notin Live
                 /\ Over(hb[s]) /\ Over(met[s]))
    /\ [][\A s \in Sessions :
            (Reading(s) /\ ~Reading(s)') =>
                /\ ~Running(hb'[s]) /\ ~Running(met'[s])
                /\ Running(hb[s]) => hb'[s] = "cancelled"
                /\ Running(met[s]) => met'[s] = "cancelled"
                /\ s \notin Range(connected_clients')]_vars

\* the read of session 1 raised while its transport was open and both tasks
\* slept: they were cancelled, and session 2 goes on with its tasks
C38_Witness ==
    /\ ws[1] = "closed"
    /\ hb[1] = "cancelled"
    /\ met[1] = "cancelled"
    /\ connected_clients = <<2>>
    /\ ws[2] = "echo"
    /\ Running(hb[2]) /\ Running(met[2])

====
